---- MODULE Spec2Model ----
(***************************************************************************)
(* Model of the natural-language query server of zoekt-nl-query:           *)
(*   - BasicTranslator.Translate          (pattern translator)             *)
(*   - OpenRouterTranslator               (LLM translator, repair chain)   *)
(*   - NLQueryServer.HandleSearch         (request orchestration)          *)
(*   - NLQueryServer.enhanceSemanticWithZoekt (hybrid fusion)              *)
(* Go strings are modelled as sequences of one-character strings, so the   *)
(* functions of package strings are computed character by character.       *)
(* Scores are fixed-point numbers in units of 1/1000.                      *)
(***************************************************************************)
EXTENDS Integers, Sequences, FiniteSets, TLC

VARIABLES
    tpc, tIn, tOut,                      \* one call of BasicTranslator.Translate
    fpc, fusionIn, fusionZoekt, fusionOut, \* one call of enhanceSemanticWithZoekt
    rpc, rKind, rIn, rOnce, rTwice,      \* the quote-balance repair, applied twice
    xpc, xEnabled, xQuestion, xEnv, xResult, \* one call of TranslateWithOpenRouter
    \* NLQueryServer and one request to HandleSearch
    translatorEnabled, \* openRouterTranslator.enabled
    semanticReady,    \* semanticSearch != nil
    userQuery, modeParam, directQuery,   \* the parameters q, mode, direct
    pc,               \* where the handler is
    searchQuery,      \* the handler's local zoektQuery
    queryType, translatorUsed, isNL, intent,
    llm,              \* what TranslateWithOpenRouter returned
    calls,            \* how often each collaborator was called
    semanticHits,     \* the handler's local semanticResults
    parseErr,         \* err of query.Parse(zoektQuery)
    result,           \* result, err of s.searcher.Search
    snippetsSent,     \* the snippets handed to AnswerFromSnippets
    answerReply,      \* what the completion service replied to them
    response,         \* the JSON object written to w
    spc, snipFiles, snipMaxFiles, snipOut, \* one call of extractAnswerSnippets
    indexing,         \* HandleIndexCodebase and the run it starts
    parked            \* a second request, while the other one is stepping

tvars == <<tpc, tIn, tOut>>
fvars == <<fpc, fusionIn, fusionZoekt, fusionOut>>
rvars == <<rpc, rKind, rIn, rOnce, rTwice>>
xvars == <<xpc, xEnabled, xQuestion, xEnv, xResult>>
config == <<translatorEnabled, semanticReady>>
request == <<userQuery, modeParam, directQuery>>
translation == <<searchQuery, queryType, translatorUsed, isNL, intent>>
keywordRun == <<parseErr, result, snippetsSent, answerReply>>
hvars == <<config, request, pc, translation, llm, calls, semanticHits,
           keywordRun, response>>
svars == <<spc, snipFiles, snipMaxFiles, snipOut>>
ivars == <<indexing>>
pvars == <<parked>>
vars == <<tvars, fvars, rvars, xvars, hvars, svars, ivars, pvars>>

(***************************************************************************)
(* Bounds of the model                                                     *)
(***************************************************************************)
MaxWords == 3
MaxSemantic == 3
MaxZoektFiles == 2
MaxPieces == 4
MaxLines == 3
MaxHits == 2
MaxSnippetFiles == 2
MaxIntentWords == 2
MaxIndexFiles == 3

(***************************************************************************)
(* A harness that is not running holds these values                        *)
(***************************************************************************)
\* a nil *zoekt.SearchResult
NilResult == [IsNil |-> TRUE, Files |-> <<>>]

NoResult == [query |-> <<>>, queryType |-> "none"]

TIdle ==
    /\ tpc = "idle"
    /\ tIn = <<>>
    /\ tOut = NoResult

FIdle ==
    /\ fpc = "idle"
    /\ fusionIn = <<>>
    /\ fusionZoekt = NilResult
    /\ fusionOut = <<>>

RIdle ==
    /\ rpc = "idle"
    /\ rKind = "none"
    /\ rIn = <<>>
    /\ rOnce = <<>>
    /\ rTwice = <<>>

NoEnv ==
    [snippets |-> FALSE, answer |-> <<>>, parses |-> TRUE,
     reply |-> [kind |-> "transport_error",
                message |-> [content |-> <<>>, reasoning |-> <<>>]]]

NoTranslation ==
    [outcome |-> "error", query |-> <<>>, intentType |-> "none",
     confidence |-> 0, completionCalls |-> 0, answerCalls |-> 0]

XIdle ==
    /\ xpc = "idle"
    /\ xEnabled = FALSE
    /\ xQuestion = <<>>
    /\ xEnv = NoEnv
    /\ xResult = NoTranslation

NoIntent == [Type |-> "none", Confidence |-> 0]

NoCalls ==
    [llm |-> 0, basic |-> 0, completion |-> 0, answer |-> 0,
     isIndexed |-> 0, semantic |-> 0, parse |-> 0, keyword |-> 0,
     snippetAnswer |-> 0]

NoSearch == [IsNil |-> TRUE, Files |-> <<>>, failed |-> FALSE]

NoAnswer == [kind |-> "none", n |-> 0, text |-> <<>>]

\* nothing has been written to the ResponseWriter
NoResponse ==
    [status |-> 0, kind |-> "none", success |-> FALSE, hasError |-> FALSE,
     queryType |-> "", translatorUsed |-> "", isNL |-> FALSE,
     translatedQuery |-> <<>>, resultCount |-> 0, mode |-> "",
     note |-> FALSE, enhanced |-> FALSE, semanticResults |-> <<>>,
     yesNoAnswer |-> NoAnswer, countAnswer |-> NoAnswer,
     directAnswer |-> <<>>, results |-> NoSearch]

\* AnswerFromSnippets has not been called
NoReply == [kind |-> "unasked", content |-> <<>>]

\* extractAnswerSnippets has returned nothing yet
NoSnippets == [snippets |-> <<>>, totalLines |-> 0, panicked |-> FALSE]

SIdle ==
    /\ spc = "idle"
    /\ snipFiles = <<>>
    /\ snipMaxFiles = 1
    /\ snipOut = NoSnippets

\* no request to HandleIndexCodebase
NoIndexing == [handler |-> "idle"]

IIdle == indexing = NoIndexing

\* there is no second request
NoParked == [pc |-> "none"]

PIdle == parked = NoParked

HIdle ==
    /\ pc = "idle"
    /\ translatorEnabled = FALSE
    /\ semanticReady = FALSE
    /\ userQuery = <<>>
    /\ modeParam = ""
    /\ directQuery = FALSE
    /\ searchQuery = <<>>
    /\ queryType = "search"
    /\ translatorUsed = "direct"
    /\ isNL = FALSE
    /\ intent = NoIntent
    /\ llm = NoTranslation
    /\ calls = NoCalls
    /\ semanticHits = <<>>
    /\ parseErr = "none"
    /\ result = NoSearch
    /\ snippetsSent = <<>>
    /\ answerReply = NoReply
    /\ response = NoResponse

(***************************************************************************)
(* Package strings                                                         *)
(***************************************************************************)
MinOf(S) == CHOOSE x \in S : \A y \in S : x <= y
MaxOf(S) == CHOOSE x \in S : \A y \in S : x >= y

UpperLetters == <<"A","B","C","D","E","F","G","H","I","J","K","L","M",
                  "N","O","P","Q","R","S","T","U","V","W","X","Y","Z">>
LowerLetters == <<"a","b","c","d","e","f","g","h","i","j","k","l","m",
                  "n","o","p","q","r","s","t","u","v","w","x","y","z">>

LowerChar(c) ==
    IF \E i \in 1..26 : UpperLetters[i] = c
    THEN LowerLetters[CHOOSE i \in 1..26 : UpperLetters[i] = c]
    ELSE c

ToLower(s) == [i \in 1..Len(s) |-> LowerChar(s[i])]

IsSpace(c) == c \in {" ", "\t", "\n", "\r", "\f"}

\* sub occurs in s at the 1-based position i
MatchAt(s, sub, i) ==
    /\ i + Len(sub) - 1 <= Len(s)
    /\ \A k \in 1..Len(sub) : s[i + k - 1] = sub[k]

Occurrences(s, sub) == {i \in 1..(Len(s) + 1) : MatchAt(s, sub, i)}

\* strings.Index: 0-based index of the first occurrence, -1 when absent
Index(s, sub) ==
    IF Occurrences(s, sub) = {} THEN -1 ELSE MinOf(Occurrences(s, sub)) - 1

\* strings.LastIndex
LastIndex(s, sub) ==
    IF Occurrences(s, sub) = {} THEN -1 ELSE MaxOf(Occurrences(s, sub)) - 1

Contains(s, sub) == Occurrences(s, sub) # {}

HasPrefix(s, p) == MatchAt(s, p, 1)

HasSuffix(s, p) == Len(p) <= Len(s) /\ MatchAt(s, p, Len(s) - Len(p) + 1)

\* Go slice expression s[a:b] with 0-based a and exclusive b
Slice(s, a, b) == SubSeq(s, a + 1, b)

TrimPrefix(s, p) == IF HasPrefix(s, p) THEN Slice(s, Len(p), Len(s)) ELSE s

TrimSuffix(s, p) == IF HasSuffix(s, p) THEN Slice(s, 0, Len(s) - Len(p)) ELSE s

\* strings.Trim / strings.TrimSpace: cut is the set of characters removed
TrimSet(s, cut) ==
    LET keep == {i \in 1..Len(s) : s[i] \notin cut}
    IN  IF keep = {} THEN <<>> ELSE SubSeq(s, MinOf(keep), MaxOf(keep))

TrimSpace(s) == TrimSet(s, {" ", "\t", "\n", "\r", "\f"})

RECURSIVE Split(_, _)
\* strings.Split with a non-empty separator
Split(s, sep) ==
    LET i == Index(s, sep)
    IN  IF i = -1 THEN <<s>>
        ELSE <<Slice(s, 0, i)>> \o Split(Slice(s, i + Len(sep), Len(s)), sep)

RECURSIVE Fields(_)
\* strings.Fields: the maximal runs of non-space characters
Fields(s) ==
    LET starts == {i \in 1..Len(s) : ~IsSpace(s[i])}
    IN  IF starts = {} THEN <<>>
        ELSE LET a == MinOf(starts)
                 ends == {i \in a..Len(s) : IsSpace(s[i])}
                 b == IF ends = {} THEN Len(s) + 1 ELSE MinOf(ends)
             IN  <<SubSeq(s, a, b - 1)>> \o Fields(SubSeq(s, b, Len(s)))

RECURSIVE Join(_, _)
\* strings.Join
Join(parts, sep) ==
    IF Len(parts) = 0 THEN <<>>
    ELSE IF Len(parts) = 1 THEN parts[1]
    ELSE parts[1] \o sep \o Join(Tail(parts), sep)

RECURSIVE Count(_, _)
\* strings.Count with a non-empty sub: non-overlapping occurrences
Count(s, sub) ==
    LET i == Index(s, sub)
    IN  IF i = -1 THEN 0 ELSE 1 + Count(Slice(s, i + Len(sub), Len(s)), sub)

(***************************************************************************)
(* String literals of basic_translator.go                                  *)
(***************************************************************************)
LitHowMany == <<"h", "o", "w", " ", "m", "a", "n", "y">>
LitArticle == <<"a", "r", "t", "i", "c", "l", "e">>
LitBlog == <<"b", "l", "o", "g">>
LitList == <<"l", "i", "s", "t">>
LitFind == <<"f", "i", "n", "d">>
LitAbout == <<"a", "b", "o", "u", "t">>
LitHave == <<"h", "a", "v", "e">>
LitWrittenAbout == <<"w", "r", "i", "t", "t", "e", "n", " ", "a", "b", "o", "u", "t">>
LitTitle == <<"t", "i", "t", "l", "e", ":">>
LitInArticles == <<" ", "i", "n", " ", "a", "r", "t", "i", "c", "l", "e", "s">>
LitOrNot == <<" ", "o", "r", " ", "n", "o", "t">>

IntentTypes == {"search", "count", "list", "find", "yesno"}

(***************************************************************************)
(* BasicTranslator.Translate                                               *)
(***************************************************************************)
TranslateAboutTopic(lower) ==
    LET parts == Split(lower, LitAbout)
        topic == TrimSpace(parts[2])
    IN  TrimSpace(TrimSuffix(TrimSuffix(topic, LitInArticles), LitOrNot))

Translate(nlQuery) ==
    LET query == TrimSpace(nlQuery)
        lower == ToLower(query)
    IN  IF Contains(lower, LitHowMany)
           /\ (Contains(lower, LitArticle) \/ Contains(lower, LitBlog))
        THEN [query |-> LitTitle, queryType |-> "count"]
        ELSE IF Contains(lower, LitList)
                /\ (Contains(lower, LitArticle) \/ Contains(lower, LitBlog))
        THEN [query |-> LitTitle, queryType |-> "list"]
        ELSE IF Contains(lower, LitFind) /\ Contains(lower, LitArticle)
        THEN IF Contains(lower, LitAbout) /\ Len(Split(lower, LitAbout)) > 1
             THEN [query |-> TrimSpace(Split(lower, LitAbout)[2]),
                   queryType |-> "find"]
             ELSE [query |-> LitTitle, queryType |-> "find"]
        ELSE IF (Contains(lower, LitHave) \/ Contains(lower, LitWrittenAbout))
                /\ Contains(lower, LitAbout)
        THEN IF Len(Split(lower, LitAbout)) > 1
             THEN [query |-> TranslateAboutTopic(lower), queryType |-> "yesno"]
             ELSE [query |-> LitTitle, queryType |-> "yesno"]
        ELSE [query |-> query, queryType |-> "search"]

(***************************************************************************)
(* SemanticSearchService.Search: distance -> similarity                    *)
(* Scores are fixed point, ScoreUnit = 1.0; distances are in units of      *)
(* 1/DistUnit.                                                             *)
(***************************************************************************)
ScoreUnit == 1000
DistUnit == 36

\* similarity := float32(1.0 / (1.0 + distance)), clamped from above only.
\* A distance of -1 divides by zero: +Inf in floating point, clamped to 1.
SearchSimilarity(distance) ==
    LET den == DistUnit + distance
        similarity == IF den = 0 THEN ScoreUnit + 1
                      ELSE (ScoreUnit * DistUnit) \div den
    IN  IF similarity > ScoreUnit THEN ScoreUnit ELSE similarity

\* One SemanticSearchResultV2 built from entry i of the vector-store reply
SearchResultOf(id, fileName, distance) ==
    [Chunk |-> [ID |-> id, FileName |-> fileName],
     Similarity |-> SearchSimilarity(distance),
     Score |-> SearchSimilarity(distance)]

(***************************************************************************)
(* NLQueryServer.enhanceSemanticWithZoekt                                  *)
(***************************************************************************)
\* zoektFileMap: the file names that have an entry in the keyword result
ZoektFileNames(zoektResult) ==
    {zoektResult.Files[i].FileName : i \in 1..Len(zoektResult.Files)}

\* zoektFileMap[name]: a later entry for the same name overwrites an earlier
ZoektFileMap(zoektResult) ==
    [name \in ZoektFileNames(zoektResult) |->
        zoektResult.Files[MaxOf({i \in 1..Len(zoektResult.Files) :
                                   zoektResult.Files[i].FileName = name})]]

\* Mutant: the boost without the cap at 1.0
BoostScoreUncapped(score) == (score * 13) \div 10

\* Score * 1.3, capped at 1.0
BoostScore(score) ==
    LET boosted == (score * 13) \div 10
    IN  IF boosted > ScoreUnit THEN ScoreUnit ELSE boosted

\* Similarity * 1.2, capped at 1.0
BoostSimilarity(similarity) ==
    LET boosted == (similarity * 12) \div 10
    IN  IF boosted > ScoreUnit THEN ScoreUnit ELSE boosted

\* The body of the loop over semanticResults
EnhanceOne(semResult, zoektResult) ==
    IF semResult.Chunk.FileName \in DOMAIN ZoektFileMap(zoektResult)
    THEN [semResult EXCEPT !.Score = BoostScore(semResult.Score),
                           !.Similarity = BoostSimilarity(semResult.Similarity)]
    ELSE semResult

SwapAt(e, i, j) == [e EXCEPT ![i] = e[j], ![j] = e[i]]

RECURSIVE ReSortAdjacentOnly(_, _, _)
\* Mutant: the inner loop stops after the first comparison (j = i + 1 only)
ReSortAdjacentOnly(e, i, j) ==
    IF i > Len(e) THEN e
    ELSE IF j > Len(e) \/ j > i + 1 THEN ReSortAdjacentOnly(e, i + 1, i + 2)
    ELSE IF e[j].Score > e[i].Score
         THEN ReSortAdjacentOnly(SwapAt(e, i, j), i, j + 1)
    ELSE ReSortAdjacentOnly(e, i, j + 1)

RECURSIVE ReSort(_, _, _)
\* for i := 0..n-1 { for j := i+1..n-1 { if e[j].Score > e[i].Score swap } }
\* with 1-based positions i, j
ReSort(e, i, j) ==
    IF i > Len(e) THEN e
    ELSE IF j > Len(e) THEN ReSort(e, i + 1, i + 2)
    ELSE IF e[j].Score > e[i].Score THEN ReSort(SwapAt(e, i, j), i, j + 1)
    ELSE ReSort(e, i, j + 1)

enhanceSemanticWithZoekt(semanticResults, zoektResult, searcherIsNil) ==
    IF searcherIsNil \/ zoektResult.IsNil THEN semanticResults
    ELSE ReSort([i \in 1..Len(semanticResults) |->
                    EnhanceOne(semanticResults[i], zoektResult)], 1, 2)

(***************************************************************************)
(* Inputs of the fusion step: a vector-store reply of up to MaxSemantic    *)
(* entries turned into matches by Search, and a keyword result of up to    *)
(* MaxZoektFiles file entries (duplicate names allowed).  The only caller  *)
(* passes a non-nil keyword result and the server has a searcher.          *)
(***************************************************************************)
SemanticFiles == {"a.py", "b.go"}
KeywordFiles == {"a.py", "c.js"}
Distances == {-108, 0, 4, 36, 108}
LineMatchCounts == {0, 2}

VectorReplies ==
    UNION {[1..n -> SemanticFiles \X Distances] : n \in 0..MaxSemantic}

SemanticResultsOf(reply) ==
    [i \in 1..Len(reply) |-> SearchResultOf(i, reply[i][1], reply[i][2])]

ZoektResults ==
    {[IsNil |-> FALSE, Files |-> fs] :
        fs \in UNION {[1..n -> [FileName : KeywordFiles,
                                LineMatches : LineMatchCounts]] :
                      n \in 0..MaxZoektFiles}}

FInit ==
    /\ fpc = "call"
    /\ \E reply \in VectorReplies : fusionIn = SemanticResultsOf(reply)
    /\ fusionZoekt \in ZoektResults
    /\ fusionOut = <<>>
    /\ TIdle /\ RIdle /\ XIdle /\ HIdle /\ SIdle /\ IIdle /\ PIdle

\* Mutant: the result is built and sorted in the caller's list
EnhanceCallInPlace ==
    /\ fpc = "call"
    /\ fusionOut' = enhanceSemanticWithZoekt(fusionIn, fusionZoekt, FALSE)
    /\ fusionIn' = fusionOut'
    /\ fpc' = "returned"
    /\ UNCHANGED <<fusionZoekt, tvars, rvars, xvars, hvars,
                   svars, ivars, pvars>>

\* One call of enhanceSemanticWithZoekt on the chosen inputs
EnhanceCall ==
    /\ fpc = "call"
    /\ fusionOut' = enhanceSemanticWithZoekt(fusionIn, fusionZoekt, FALSE)
    /\ fpc' = "returned"
    /\ UNCHANGED <<fusionIn, fusionZoekt, tvars, rvars, xvars, hvars,
                   svars, ivars, pvars>>

FNext == EnhanceCall

SpecFusion == FInit /\ [][FNext]_vars

\* The pre-fusion match that an output match was made from
PreFusion(m) ==
    fusionIn[CHOOSE i \in 1..Len(fusionIn) : fusionIn[i].Chunk.ID = m.Chunk.ID]

InKeywordResult(m) ==
    \E i \in 1..Len(fusionZoekt.Files) :
        fusionZoekt.Files[i].FileName = m.Chunk.FileName

\* C4: every match returned by the fusion step has 0 <= Score <= 1 and
\* 0 <= Similarity <= 1, whatever the pre-fusion values were.
FusionScoreBound ==
    fpc = "returned" =>
        \A i \in 1..Len(fusionOut) :
            /\ 0 <= fusionOut[i].Score /\ fusionOut[i].Score <= ScoreUnit
            /\ 0 <= fusionOut[i].Similarity
            /\ fusionOut[i].Similarity <= ScoreUnit

\* C5: the list returned by the fusion step is sorted by non-increasing
\* Score.
FusionSorted ==
    fpc = "returned" =>
        \A i \in 1..(Len(fusionOut) - 1) :
            fusionOut[i].Score >= fusionOut[i + 1].Score

\* A call that had to reorder: the boosted last match overtakes the first.
FusionSortedWitness ==
    /\ fpc = "returned"
    /\ Len(fusionOut) = 3
    /\ fusionOut[1].Chunk.ID = 3
    /\ fusionOut[1].Score > fusionOut[2].Score
    /\ fusionOut[2].Score > fusionOut[3].Score

\* C6: the re-ranking is stable: two matches with equal post-fusion Score
\* keep the relative order in which the semantic backend returned them.
FusionStable ==
    fpc = "returned" =>
        \A i, j \in 1..Len(fusionOut) :
            (i < j /\ fusionOut[i].Score = fusionOut[j].Score)
                => fusionOut[i].Chunk.ID < fusionOut[j].Chunk.ID

\* C7: a match whose file is among the keyword result files gets
\* Score = min(1.0, 1.3 * Score) and Similarity = min(1.0, 1.2 * Similarity),
\* once, whatever the number of line matches or duplicate file entries;
\* every other match keeps both values.
FusionBoostExact ==
    fpc = "returned" =>
        \A i \in 1..Len(fusionOut) :
            LET m == fusionOut[i]
                pre == PreFusion(m)
                s13 == (13 * pre.Score) \div 10
                s12 == (12 * pre.Similarity) \div 10
            IN  IF InKeywordResult(m)
                THEN /\ m.Score = IF s13 < ScoreUnit THEN s13 ELSE ScoreUnit
                     /\ m.Similarity = IF s12 < ScoreUnit THEN s12 ELSE ScoreUnit
                ELSE /\ m.Score = pre.Score
                     /\ m.Similarity = pre.Similarity

\* The scenario of the claim: a.py is in both result sets (twice in the
\* keyword result, with line matches), pre-fusion 0.9, post-fusion 1.0,
\* next to a match that is not in the keyword result.
FusionBoostWitness ==
    /\ fpc = "returned"
    /\ Len(fusionZoekt.Files) = 2
    /\ fusionZoekt.Files[1].FileName = "a.py"
    /\ fusionZoekt.Files[2].FileName = "a.py"
    /\ fusionZoekt.Files[2].LineMatches = 2
    /\ \E i, j \in 1..Len(fusionOut) :
          /\ fusionOut[i].Chunk.FileName = "a.py"
          /\ PreFusion(fusionOut[i]).Score = 900
          /\ fusionOut[i].Score = ScoreUnit
          /\ fusionOut[j].Chunk.FileName = "b.go"
          /\ fusionOut[j].Score = 500

\* C8: for every match whose file also appears in the keyword results the
\* post-fusion Score is never lower than the pre-fusion Score.
FusionMonotone ==
    fpc = "returned" =>
        \A i \in 1..Len(fusionOut) :
            InKeywordResult(fusionOut[i])
                => fusionOut[i].Score >= PreFusion(fusionOut[i]).Score

\* the ways to pair the positions of the output with those of the input
Pairings(n) ==
    {p \in [1..n -> 1..n] : \A i, j \in 1..n : p[i] = p[j] => i = j}

\* the output holds the chunks of the input, each as often as the input
SameChunks ==
    /\ Len(fusionOut) = Len(fusionIn)
    /\ \E p \in Pairings(Len(fusionIn)) :
          \A i \in 1..Len(fusionOut) : fusionOut[i].Chunk = fusionIn[p[i]].Chunk

\* C30: enhanceSemanticWithZoekt only re-scores and reorders: its output
\* has the length of the input list and holds exactly the same chunks, each
\* as many times as the input, and the caller's input list keeps its
\* order, scores and similarities.
FusionOnlyReorders ==
    /\ [](fpc = "returned" => SameChunks)
    /\ [][fusionIn' = fusionIn]_vars

\* the call boosted one match past another, so that the output differs
\* from the input in a score and in the order
FusionReorderWitness ==
    /\ fpc = "returned"
    /\ Len(fusionOut) >= 2
    /\ fusionOut[1].Chunk = fusionIn[2].Chunk
    /\ fusionOut[1].Score > fusionIn[2].Score

(***************************************************************************)
(* Inputs of the pattern translator: up to MaxWords words joined by one    *)
(* space.  The empty word yields the empty and the whitespace-only input.  *)
(***************************************************************************)
TranslateWords ==
    { <<>>, LitHowMany, LitArticle, LitBlog, LitList,
      <<"F", "i", "n", "d">>, LitAbout, LitHave,
      <<"r", "u", "s", "t">>, <<"o", "r", " ", "n", "o", "t">> }

WordSeqs(W, n) == UNION {[1..k -> W] : k \in 1..n}

TranslateInputs == {Join(ws, <<" ">>) : ws \in WordSeqs(TranslateWords, MaxWords)}

TInit ==
    /\ tpc = "call"
    /\ tIn \in TranslateInputs
    /\ tOut = NoResult
    /\ FIdle /\ RIdle /\ XIdle /\ HIdle /\ SIdle /\ IIdle /\ PIdle

\* One call of BasicTranslator.Translate on the chosen input
TranslateCall ==
    /\ tpc = "call"
    /\ tOut' = Translate(tIn)
    /\ tpc' = "returned"
    /\ UNCHANGED <<tIn, fvars, rvars, xvars, hvars, svars, ivars, pvars>>

TNext == TranslateCall

SpecTranslate == TInit /\ [][TNext]_vars

\* C1: for every input string, Translate returns a non-empty query and an
\* intent type among search, count, list, find, yesno.
TranslateTotal ==
    tpc = "returned" => (Len(tOut.query) > 0 /\ tOut.queryType \in IntentTypes)

(***************************************************************************)
(* Quote-balance repair of the LLM translator                              *)
(***************************************************************************)
Quote == <<"\"">>
LitFileQuote == <<"f", "i", "l", "e", ":", "\"">>
LitContentQuote == <<"c", "o", "n", "t", "e", "n", "t", ":", "\"">>
LitDotStar == <<".", "*">>
LitOr == <<" ", "O", "R", " ">>
LitAnd == <<" ", "A", "N", "D", " ">>
LitFileColon == <<"f", "i", "l", "e", ":">>

\* TranslateWithOpenRouter, the loop body of lines 373-389: one piece that
\* followed a file:" opener
InlineRepairPart(part) ==
    LET found == {Index(part, sep) : sep \in {LitOr, LitAnd, <<" ">>}} \ {-1}
        endIdx == MinOf(found \cup {Len(part)})
        segment == Slice(part, 0, endIdx)
    IN  IF ~Contains(segment, Quote) /\ Contains(segment, LitDotStar)
        THEN segment \o Quote \o Slice(part, endIdx, Len(part))
        ELSE part

\* TranslateWithOpenRouter, "Fix unterminated quotes in file patterns"
InlineFileQuoteRepair(zoektQuery) ==
    IF Contains(zoektQuery, LitFileQuote)
    THEN LET parts == Split(zoektQuery, LitFileQuote)
         IN  Join([i \in 1..Len(parts) |->
                      IF i = 1 THEN parts[i] ELSE InlineRepairPart(parts[i])],
                  LitFileQuote)
    ELSE zoektQuery

\* validateAndFixQuery, "Fix unterminated content:" patterns"
FixContentQuote(queryStr) ==
    IF Contains(queryStr, LitContentQuote)
       /\ ~HasSuffix(TrimSpace(queryStr), Quote)
    THEN queryStr \o Quote
    ELSE queryStr

\* validateAndFixQuery, "Fix unterminated file:" patterns"
FixFileQuote(queryStr) ==
    IF Contains(queryStr, LitFileQuote)
    THEN LET lastFileIdx == LastIndex(queryStr, LitFileQuote)
             afterFile == Slice(queryStr, lastFileIdx + 6, Len(queryStr))
         IN  IF Count(afterFile, Quote) = 0 THEN queryStr \o Quote
             ELSE queryStr
    ELSE queryStr

\* validateAndFixQuery up to the parse: both quote repairs in order
ValidateQuoteRepair(q) == FixFileQuote(FixContentQuote(q))

QuoteRepair(kind, q) ==
    IF kind = "inline" THEN InlineFileQuoteRepair(q) ELSE ValidateQuoteRepair(q)

\* Quotes pair up from the left, every quote has a partner, and the quote of
\* each file:" or content:" opener is an opening one
QuotesBalanced(q) ==
    LET quotes == {i \in 1..Len(q) : q[i] = "\""}
        openers == UNION {{i + Len(op) - 1 : i \in Occurrences(q, op)} :
                          op \in {LitFileQuote, LitContentQuote}}
    IN  /\ Cardinality(quotes) % 2 = 0
        /\ \A p \in openers : Cardinality({x \in quotes : x < p}) % 2 = 0

(***************************************************************************)
(* Inputs of the repair: candidate queries made of up to MaxPieces pieces  *)
(***************************************************************************)
RepairPieces ==
    {LitFileQuote, LitContentQuote, LitFileColon, Quote, LitDotStar,
     <<" ">>, <<"a">>}

RECURSIVE Concat(_)
Concat(parts) == IF Len(parts) = 0 THEN <<>> ELSE parts[1] \o Concat(Tail(parts))

RepairInputs == {Concat(ps) : ps \in WordSeqs(RepairPieces, MaxPieces)}

RInit ==
    /\ rpc = "call"
    /\ rKind \in {"inline", "validate"}
    /\ rIn \in RepairInputs
    /\ rOnce = <<>>
    /\ rTwice = <<>>
    /\ TIdle /\ FIdle /\ XIdle /\ HIdle /\ SIdle /\ IIdle /\ PIdle

\* The repair runs on the candidate query
RepairFirst ==
    /\ rpc = "call"
    /\ rOnce' = QuoteRepair(rKind, rIn)
    /\ rpc' = "once"
    /\ UNCHANGED <<rKind, rIn, rTwice, tvars, fvars, xvars, hvars,
                   svars, ivars, pvars>>

\* The repair runs again on its own output
RepairAgain ==
    /\ rpc = "once"
    /\ rTwice' = QuoteRepair(rKind, rOnce)
    /\ rpc' = "twice"
    /\ UNCHANGED <<rKind, rIn, rOnce, tvars, fvars, xvars, hvars,
                   svars, ivars, pvars>>

RNext == RepairFirst \/ RepairAgain

SpecRepair == RInit /\ [][RNext]_vars

\* C9: the quote-balance repair is conservative and idempotent: a query
\* whose quotes are balanced is returned unchanged, and repairing twice
\* gives the same string as repairing once.
RepairConservativeIdempotent ==
    rpc = "twice" =>
        /\ QuotesBalanced(rIn) => rOnce = rIn
        /\ rTwice = rOnce

(***************************************************************************)
(* OpenRouterTranslator: string literals                                   *)
(***************************************************************************)
\* the backquote character (it cannot be written inside a TLA+ string)
Backtick == "backquote"

LitLangColon == <<"l", "a", "n", "g", ":">>
LitContentColon == <<"c", "o", "n", "t", "e", "n", "t", ":">>
LitSymColon == <<"s", "y", "m", ":">>
LitHow == <<"h", "o", "w">>
LitWhat == <<"w", "h", "a", "t">>
LitLowerI == <<"i", " ">>
LitUpperI == <<"I", " ">>
LitUpperINewline == <<"I", "\n">>
LitINeed == <<"i", " ", "n", "e", "e", "d">>
LitTheUser == <<"t", "h", "e", " ", "u", "s", "e", "r">>
LitTheyreAsking == <<"t", "h", "e", "y", "'", "r", "e", " ", "a", "s", "k", "i", "n", "g">>
LitOutput == <<"O", "u", "t", "p", "u", "t", ":">>
LitQuery == <<"Q", "u", "e", "r", "y", ":">>
LitZoektQuery == <<"Z", "o", "e", "k", "t", " ", "q", "u", "e", "r", "y", ":">>
LitLowerQuery == <<"q", "u", "e", "r", "y", ":">>
LitFence == <<Backtick, Backtick, Backtick>>
LitFenceZoekt == <<Backtick, Backtick, Backtick, "z", "o", "e", "k", "t">>
LitFenceJs == <<Backtick, Backtick, Backtick, "j", "s">>
LitBlogs == <<"b", "l", "o", "g", "s">>
LitFileBlogsJs == <<"f", "i", "l", "e", ":", "b", "l", "o", "g", "s", ".", "j", "s">>
LitStars == <<"*", "*">>
LitDirectAnswer == <<"D", "I", "R", "E", "C", "T", "_", "A", "N", "S", "W", "E", "R", ":">>
LitCount == <<"c", "o", "u", "n", "t">>
LitShowAll == <<"s", "h", "o", "w", " ", "a", "l", "l">>
LitDoI == <<"d", "o", " ", "i">>
LitDidI == <<"d", "i", "d", " ", "i">>
LitDoes == <<"d", "o", "e", "s", " ">>
LitDo == <<"d", "o", " ">>
LitHaveSpace == <<"h", "a", "v", "e", " ">>
LitHas == <<"h", "a", "s", " ">>

ExplanationWords ==
    {<<"c", "o", "n", "v", "e", "r", "t", "i", "n", "g">>,
     <<"f", "o", "r", "m", "u", "l", "a", "t", "i", "n", "g">>,
     <<"t", "r", "a", "n", "s", "f", "o", "r", "m", "i", "n", "g">>,
     <<"s", "e", "a", "r", "c", "h", "i", "n", "g">>,
     <<"l", "o", "o", "k", "i", "n", "g">>,
     <<"f", "i", "n", "d", "i", "n", "g">>,
     <<"a", "n", "a", "l", "y", "z", "i", "n", "g">>,
     <<"p", "r", "o", "c", "e", "s", "s", "i", "n", "g">>}

StopWords ==
    {<<"h", "o", "w">>, <<"m", "u", "c", "h">>, <<"m", "a", "n", "y">>,
     <<"d", "o", "e", "s">>, <<"d", "o">>, <<"h", "a", "v", "e">>,
     <<"h", "a", "s">>, <<"i", "s">>, <<"a", "r", "e">>, <<"t", "h", "e">>,
     <<"a">>, <<"a", "n">>, <<"w", "h", "a", "t">>,
     <<"w", "h", "e", "r", "e">>, <<"w", "h", "e", "n">>,
     <<"w", "h", "i", "c", "h">>, <<"w", "h", "o">>, <<"f", "i", "n", "d">>,
     <<"s", "h", "o", "w">>, <<"l", "i", "s", "t">>, <<"g", "e", "t">>,
     <<"s", "e", "a", "r", "c", "h">>, <<"f", "o", "r">>, <<"i", "n">>,
     <<"o", "n">>, <<"a", "t">>, <<"t", "o">>, <<"o", "f">>,
     <<"a", "n", "d">>, <<"o", "r">>}

PunctuationCutset ==
    {".", ",", "!", "?", ";", ":", "(", ")", "[", "]", "{", "}", "'", "\""}

(***************************************************************************)
(* OpenRouterTranslator.extractKeyTerms                                    *)
(***************************************************************************)
RECURSIVE KeyTermsLoop(_, _)
\* the loop over words; keyTerms doubles as the seen map
KeyTermsLoop(words, keyTerms) ==
    IF Len(words) = 0 THEN keyTerms
    ELSE LET word == TrimSet(words[1], PunctuationCutset)
         IN  IF word \in StopWords \/ Len(word) < 3
                \/ (\E i \in 1..Len(keyTerms) : keyTerms[i] = word)
             THEN KeyTermsLoop(Tail(words), keyTerms)
             ELSE KeyTermsLoop(Tail(words), Append(keyTerms, word))

extractKeyTerms(query) == KeyTermsLoop(Fields(ToLower(query)), <<>>)

\* "join filtered key terms with spaces, else the original question"
KeyTermsOrQuestion(nlQuery) ==
    IF Len(extractKeyTerms(nlQuery)) > 0
    THEN Join(extractKeyTerms(nlQuery), <<" ">>)
    ELSE nlQuery

(***************************************************************************)
(* TranslateWithOpenRouter: extraction and repair of the model output      *)
(***************************************************************************)
IsExplanationWord(lowerLine) ==
    \E word \in ExplanationWords :
        lowerLine = word \/ HasPrefix(lowerLine, word \o <<" ">>)

\* lines 291-303: the line is dropped as explanation
SkipLine(line) ==
    LET lowerLine == ToLower(TrimSpace(line))
    IN  \/ IsExplanationWord(lowerLine)
        \/ Contains(lowerLine, LitINeed)
        \/ Contains(lowerLine, LitTheUser)
        \/ Contains(lowerLine, LitTheyreAsking)
        \/ Len(line) > 200
        \/ HasPrefix(TrimSpace(line), LitUpperI)
        \/ HasPrefix(TrimSpace(line), LitUpperINewline)
        \/ TrimSpace(line) = <<"I">>

\* lines 306-313: the line looks like a query
LooksLikeQuery(line) ==
    \/ Contains(line, LitFileColon)
    \/ Contains(line, LitLangColon)
    \/ Contains(line, LitContentColon)
    \/ Contains(line, LitSymColon)
    \/ /\ Len(line) > 0 /\ Len(line) < 150
       /\ ~Contains(ToLower(line), LitHow)
       /\ ~Contains(ToLower(line), LitWhat)
       /\ ~HasPrefix(ToLower(TrimSpace(line)), LitLowerI)

IsQueryLine(line) == ~SkipLine(line) /\ LooksLikeQuery(line)

\* lines 277-316: queryLines
QueryLines(zoektQuery) ==
    LET lines == Split(zoektQuery, <<"\n">>)
        trimmed == [i \in 1..Len(lines) |-> TrimSpace(lines[i])]
    IN  SelectSeq(trimmed, IsQueryLine)

\* lines 319-321: "If we found query-like lines, use the first one"
FirstQueryLine(zoektQuery) ==
    IF Len(QueryLines(zoektQuery)) > 0 THEN QueryLines(zoektQuery)[1]
    ELSE zoektQuery

\* lines 324-337: label prefixes, code fences, backticks, outer quotes
StripDecorations(zoektQuery) ==
    LET q1 == TrimPrefix(zoektQuery, LitOutput)
        q2 == TrimPrefix(q1, LitQuery)
        q3 == TrimPrefix(q2, LitZoektQuery)
        q4 == TrimPrefix(q3, LitLowerQuery)
        q5 == TrimPrefix(q4, LitFence)
        q6 == TrimSuffix(q5, LitFence)
        q7 == TrimPrefix(q6, LitFenceZoekt)
        q8 == TrimPrefix(q7, LitFenceJs)
        q9 == TrimSet(q8, {Backtick})
        q10 == TrimSet(q9, {"\"", "'"})
    IN  TrimSpace(q10)

RECURSIVE FirstFilterWord(_, _)
\* lines 356-361: the first word with a file: or lang: prefix, else dflt
FirstFilterWord(words, dflt) ==
    IF Len(words) = 0 THEN dflt
    ELSE IF HasPrefix(words[1], LitFileColon) \/ HasPrefix(words[1], LitLangColon)
    THEN words[1]
    ELSE FirstFilterWord(Tail(words), dflt)

\* lines 341-366.  strings.Fields(parts[1])[0] indexes an empty slice when
\* nothing but white space follows the first "file:": the call panics.
ExtractFilePattern(zoektQuery) ==
    IF Contains(zoektQuery, LitFileColon)
    THEN LET parts == Split(zoektQuery, LitFileColon)
         IN  IF Len(parts) > 1
             THEN IF Len(Fields(parts[2])) = 0
                  THEN [panicked |-> TRUE, query |-> zoektQuery]
                  ELSE LET filePart == Fields(parts[2])[1]
                       IN  IF Contains(zoektQuery, LitBlogs)
                              /\ Contains(filePart, LitBlogs)
                           THEN [panicked |-> FALSE, query |-> LitFileBlogsJs]
                           ELSE [panicked |-> FALSE,
                                 query |-> LitFileColon \o filePart]
             ELSE [panicked |-> FALSE, query |-> zoektQuery]
    ELSE IF Len(zoektQuery) > 200
    THEN LET words == Fields(zoektQuery)
             picked == FirstFilterWord(words, zoektQuery)
         IN  IF Len(picked) > 200 /\ Len(words) > 0
             THEN [panicked |-> FALSE, query |-> words[1]]
             ELSE [panicked |-> FALSE, query |-> picked]
    ELSE [panicked |-> FALSE, query |-> zoektQuery]

\* lines 250-271: content first, the reasoning field when content is empty
RawCandidate(message) ==
    IF message.content # <<>> THEN TrimSpace(message.content)
    ELSE IF message.reasoning # <<>>
    THEN LET reasoning == TrimSpace(message.reasoning)
         IN  IF Contains(reasoning, LitOutput)
             THEN LET parts == Split(reasoning, LitOutput)
                  IN  TrimSpace(parts[Len(parts)])
             ELSE reasoning
    ELSE <<>>

\* lines 273-392: from the raw candidate to the repaired candidate
ExtractAndRepair(message) ==
    LET raw == RawCandidate(message)
    IN  IF raw = <<>> THEN [panicked |-> FALSE, query |-> <<>>]
        ELSE LET stripped == StripDecorations(FirstQueryLine(TrimSpace(raw)))
                 filed == ExtractFilePattern(stripped)
             IN  IF filed.panicked THEN filed
                 ELSE [panicked |-> FALSE,
                       query |-> InlineFileQuoteRepair(filed.query)]

(***************************************************************************)
(* OpenRouterTranslator.validateAndFixQuery                                *)
(***************************************************************************)
RECURSIVE CleanParts(_)
\* lines 761-774: drop the content:" wrapper of each field
CleanParts(parts) ==
    IF Len(parts) = 0 THEN <<>>
    ELSE LET part == parts[1]
             term == TrimSuffix(TrimPrefix(part, LitContentQuote), Quote)
         IN  IF HasPrefix(part, LitContentQuote)
             THEN (IF term # <<>> THEN <<term>> ELSE <<>>)
                  \o CleanParts(Tail(parts))
             ELSE IF ~HasPrefix(part, LitContentColon)
             THEN <<part>> \o CleanParts(Tail(parts))
             ELSE CleanParts(Tail(parts))

\* parses is the verdict of query.Parse on the repaired string
validateAndFixQuery(q, parses) ==
    LET queryStr == ValidateQuoteRepair(q)
    IN  IF ~parses /\ Contains(queryStr, LitContentQuote)
           /\ Len(CleanParts(Fields(queryStr))) > 0
        THEN Join(CleanParts(Fields(queryStr)), <<" ">>)
        ELSE queryStr

(***************************************************************************)
(* TranslateWithOpenRouter                                                 *)
(***************************************************************************)
\* lines 82-87
IsQuestion(nlQuery) ==
    LET lowerQuery == ToLower(nlQuery)
    IN  \/ HasPrefix(lowerQuery, LitDoes)
        \/ HasPrefix(lowerQuery, LitDo)
        \/ HasPrefix(lowerQuery, LitHaveSpace)
        \/ HasPrefix(lowerQuery, LitHas)
        \/ Contains(lowerQuery, <<"?">>)

\* Mutant: the yes/no words are looked for before the list words
IntentTypeYesNoFirst(nlQuery) ==
    LET lower == ToLower(nlQuery)
    IN  IF Contains(lower, LitHowMany) \/ Contains(lower, LitCount)
        THEN "count"
        ELSE IF Contains(lower, LitHave) \/ Contains(lower, LitDoI)
                \/ Contains(lower, LitDidI)
        THEN "yesno"
        ELSE IF Contains(lower, LitList) \/ Contains(lower, LitShowAll)
        THEN "list"
        ELSE "search"

\* lines 509-516
IntentTypeOf(nlQuery) ==
    LET lower == ToLower(nlQuery)
    IN  IF Contains(lower, LitHowMany) \/ Contains(lower, LitCount)
        THEN "count"
        ELSE IF Contains(lower, LitList) \/ Contains(lower, LitShowAll)
        THEN "list"
        ELSE IF Contains(lower, LitHave) \/ Contains(lower, LitDoI)
                \/ Contains(lower, LitDidI)
        THEN "yesno"
        ELSE "search"

\* Mutant: the question replaces a short query, whatever its key terms
TooShortTakesQuestion(zoektQuery, nlQuery) ==
    IF Len(TrimSpace(zoektQuery)) <= 1 THEN nlQuery
    ELSE zoektQuery

\* lines 397-414: "reject single characters or very short queries"
TooShortFallback(zoektQuery, nlQuery) ==
    IF Len(TrimSpace(zoektQuery)) <= 1 THEN KeyTermsOrQuestion(nlQuery)
    ELSE zoektQuery

\* lines 425-450: the query is an explanation word
ExplanationFallback(zoektQuery, nlQuery) ==
    IF IsExplanationWord(ToLower(TrimSpace(zoektQuery)))
    THEN KeyTermsOrQuestion(nlQuery)
    ELSE zoektQuery

\* lines 453-476: the regular-expression match is overwritten by the key
\* terms (or the question) in every case
LongOrMarkedFallback(zoektQuery, nlQuery) ==
    IF Len(zoektQuery) > 200 \/ Contains(zoektQuery, LitStars)
    THEN KeyTermsOrQuestion(nlQuery)
    ELSE zoektQuery

\* lines 479-497: final validation
FinalFallback(zoektQuery, nlQuery) ==
    LET trimmedQuery == TrimSpace(zoektQuery)
    IN  IF Len(trimmedQuery) <= 1 \/ trimmedQuery = <<"I">>
           \/ trimmedQuery = <<"i">>
        THEN KeyTermsOrQuestion(nlQuery)
        ELSE zoektQuery

\* return "", nil, err
TranslationError == NoTranslation

\* env holds what the outside world answers during the call:
\*   snippets : findRelevantCodeSnippets found usable grounding snippets
\*   answer   : the string AnswerFromSnippets returns ("" when it fails)
\*   reply    : the completion service's reply to the query-generation call
\*   parses   : the verdict of query.Parse inside validateAndFixQuery
TranslateWithOpenRouter(enabled, nlQuery, env) ==
    IF ~enabled THEN TranslationError
    ELSE IF IsQuestion(nlQuery) /\ env.snippets
            /\ Len(extractKeyTerms(nlQuery)) > 0
            /\ env.answer # <<>> /\ Len(env.answer) > 10
    THEN [outcome |-> "ok", query |-> LitDirectAnswer \o env.answer,
          intentType |-> "answer", confidence |-> 900,
          completionCalls |-> 0, answerCalls |-> 1]
    ELSE LET answerCalls ==
                 IF IsQuestion(nlQuery) /\ env.snippets
                    /\ Len(extractKeyTerms(nlQuery)) > 0 THEN 1 ELSE 0
         IN  IF env.reply.kind # "ok"
             THEN [TranslationError EXCEPT !.completionCalls = 1,
                                           !.answerCalls = answerCalls]
             ELSE LET extracted == ExtractAndRepair(env.reply.message)
                      short == TooShortFallback(extracted.query, nlQuery)
                      fixed == validateAndFixQuery(short, env.parses)
                      final == FinalFallback(
                                  LongOrMarkedFallback(
                                     ExplanationFallback(fixed, nlQuery),
                                     nlQuery),
                                  nlQuery)
                  IN  IF extracted.panicked
                      THEN [TranslationError EXCEPT
                               !.outcome = "panic",
                               !.completionCalls = 1,
                               !.answerCalls = answerCalls]
                      ELSE IF short = <<>> \/ Len(TrimSpace(short)) <= 1
                      THEN [TranslationError EXCEPT
                               !.completionCalls = 1,
                               !.answerCalls = answerCalls]
                      ELSE [outcome |-> "ok", query |-> final,
                            intentType |-> IntentTypeOf(nlQuery),
                            confidence |-> 950,
                            completionCalls |-> 1,
                            answerCalls |-> answerCalls]

(***************************************************************************)
(* Inputs of the LLM translator: questions, completion-service replies     *)
(* whose content has up to MaxLines lines, grounding and parse outcomes    *)
(***************************************************************************)
QHowManyBlogs == <<"h", "o", "w", " ", "m", "a", "n", "y", " ", "b", "l", "o", "g", "s">>
QDoIHaveBlogs == <<"d", "o", " ", "i", " ", "h", "a", "v", "e", " ", "b", "l", "o", "g", "s", "?">>
QListBlogs == <<"l", "i", "s", "t", " ", "b", "l", "o", "g", "s">>
QIsIt == <<"i", "s", " ", "i", "t">>
QMark == <<"?">>

Questions == {QHowManyBlogs, QDoIHaveBlogs, QListBlogs, QIsIt, QMark}

AnswerShort == <<"Y", "E", "S">>
AnswerLong == <<"Y", "E", "S", ",", " ", "b", "l", "o", "g", "s", ".", "j", "s", " ", "h", "a", "s", " ", "t", "h", "e", "m">>

Answers == {<<>>, AnswerShort, AnswerLong}

LineFenceZoekt == LitFenceZoekt
LineFence == LitFence
LineFileBlogsOpen == <<"f", "i", "l", "e", ":", "\"", "b", "l", "o", "g", "s", ".", "j", "s">>
LineSearching == <<"S", "e", "a", "r", "c", "h", "i", "n", "g", " ", "f", "o", "r", " ", "b", "l", "o", "g", "s">>
LineLangGo == <<"l", "a", "n", "g", ":", "g", "o">>
LineContentOpen == <<"c", "o", "n", "t", "e", "n", "t", ":", "\"", "a">>

ContentLines ==
    {LineFenceZoekt, LineFence, LineFileBlogsOpen, LineSearching,
     LineLangGo, LitFileColon, LineContentOpen}

Contents ==
    {<<>>} \cup {Join(ls, <<"\n">>) : ls \in WordSeqs(ContentLines, MaxLines)}

ReasoningOutput == <<"T", "h", "i", "n", "k", "i", "n", "g", ".", " ", "O", "u", "t", "p", "u", "t", ":", " ", "b", "l", "o", "g", "s">>

NoMessage == [content |-> <<>>, reasoning |-> <<>>]

\* transport error, non-200 status, undecodable body, or a decoded reply
Replies ==
    {[kind |-> k, message |-> NoMessage] :
        k \in {"transport_error", "status_error", "bad_json"}}
    \cup {[kind |-> "ok", message |-> [content |-> c, reasoning |-> <<>>]] :
            c \in Contents}
    \cup {[kind |-> "ok",
           message |-> [content |-> <<>>, reasoning |-> ReasoningOutput]]}

Envs == [snippets : BOOLEAN, answer : Answers, reply : Replies,
         parses : BOOLEAN]

\* the content of the scenario: a fenced query with an unterminated quote
FencedContent ==
    Join(<<LineFenceZoekt, LineFileBlogsOpen, LineFence>>, <<"\n">>)

\* a translator that is not enabled consults no service
XInit ==
    /\ xpc = "call"
    /\ xEnabled \in BOOLEAN
    /\ xQuestion \in Questions
    /\ xEnv \in IF xEnabled THEN Envs ELSE {NoEnv}
    /\ (~xEnv.snippets => xEnv.answer = <<>>)
    /\ xResult = TranslationError
    /\ TIdle /\ FIdle /\ RIdle /\ HIdle /\ SIdle /\ IIdle /\ PIdle

\* One call of TranslateWithOpenRouter
TranslateLLMCall ==
    /\ xpc = "call"
    /\ xResult' = TranslateWithOpenRouter(xEnabled, xQuestion, xEnv)
    /\ xpc' = "returned"
    /\ UNCHANGED <<xEnabled, xQuestion, xEnv, tvars, fvars, rvars, hvars,
                   svars, ivars, pvars>>

XNext == TranslateLLMCall

SpecLLM == XInit /\ [][XNext]_vars

\* the file pattern for blogs.js with balanced quotes
LitFileBlogsQuoted == <<"f", "i", "l", "e", ":", "\"", "b", "l", "o", "g", "s", ".", "j", "s", "\"">>

\* C10: when the completion service returns the fenced content with the
\* unterminated quote, the returned query is the file pattern for blogs.js
\* with the closing quote appended, not the fence label or another line.
FencedQueryRepaired ==
    (/\ xpc = "returned"
     /\ xResult.completionCalls = 1
     /\ xEnv.reply.kind = "ok"
     /\ xEnv.reply.message.content = FencedContent)
        => (xResult.outcome = "ok" /\ xResult.query = LitFileBlogsQuoted)

(***************************************************************************)
(* Inputs for the intent of the LLM translator: questions of up to         *)
(* MaxIntentWords of the words the classification looks for, and replies   *)
(* of one line                                                             *)
(***************************************************************************)
IntentWords ==
    {LitHowMany, LitCount, <<"L", "i", "s", "t">>,
     <<"S", "h", "o", "w", " ", "A", "L", "L">>, LitHave, LitDoI, LitDidI,
     <<"b", "l", "o", "g", "s">>}

IntentQuestions ==
    {Join(ws, <<" ">>) : ws \in WordSeqs(IntentWords, MaxIntentWords)}

IntentReplies ==
    {[kind |-> "transport_error", message |-> NoMessage]}
    \cup {[kind |-> "ok", message |-> [content |-> c, reasoning |-> <<>>]] :
            c \in {<<>>, LineLangGo, LineSearching, LitFileColon}}

IntentEnvs == [snippets : BOOLEAN, answer : {<<>>, AnswerLong},
              reply : IntentReplies, parses : BOOLEAN]

XInitIntent ==
    /\ xpc = "call"
    /\ xEnabled \in BOOLEAN
    /\ xQuestion \in IntentQuestions
    /\ xEnv \in IF xEnabled THEN IntentEnvs ELSE {NoEnv}
    /\ (~xEnv.snippets => xEnv.answer = <<>>)
    /\ xResult = TranslationError
    /\ TIdle /\ FIdle /\ RIdle /\ HIdle /\ SIdle /\ IIdle /\ PIdle

SpecIntent == XInitIntent /\ [][XNext]_vars

\* TranslateWithOpenRouter returned a query, not a marked answer
ReturnedQuery ==
    /\ xpc = "returned"
    /\ xResult.outcome = "ok"
    /\ ~HasPrefix(xResult.query, LitDirectAnswer)

\* the question, lowercased, contains one of the words
AsksAnyOf(words) ==
    \E w \in words : Contains(ToLower(xQuestion), w)

\* C24: when TranslateWithOpenRouter returns a query (not a direct answer),
\* the intent type depends only on the lowercased question: count if it
\* contains "how many" or "count", otherwise list if it contains "list" or
\* "show all", otherwise yesno if it contains "have", "do i" or "did i",
\* otherwise search; the confidence is 0.95, which lies in [0, 1].
IntentFromQuestionOnly ==
    ReturnedQuery =>
        /\ xResult.intentType =
              IF AsksAnyOf({<<"h", "o", "w", " ", "m", "a", "n", "y">>,
                            <<"c", "o", "u", "n", "t">>})
              THEN "count"
              ELSE IF AsksAnyOf({<<"l", "i", "s", "t">>,
                                 <<"s", "h", "o", "w", " ", "a", "l", "l">>})
              THEN "list"
              ELSE IF AsksAnyOf({<<"h", "a", "v", "e">>, <<"d", "o", " ", "i">>,
                                 <<"d", "i", "d", " ", "i">>})
              THEN "yesno"
              ELSE "search"
        /\ xResult.confidence = (95 * ScoreUnit) \div 100
        /\ 0 <= xResult.confidence /\ xResult.confidence <= ScoreUnit

\* a question with a list word and a yes/no word was given a query that
\* differs from the question
IntentWitness ==
    /\ ReturnedQuery
    /\ xQuestion = <<"L", "i", "s", "t", " ", "h", "a", "v", "e">>
    /\ xResult.query = LineLangGo
    /\ xResult.intentType = "list"

(***************************************************************************)
(* Inputs for the fallbacks of the LLM translator: questions with and      *)
(* without key terms, one of them a single character; replies of one      *)
(* line: a usable query, nothing, one character, an explanation, a token   *)
(* of more than 200 characters                                             *)
(***************************************************************************)
LongToken == [i \in 1..201 |-> "x"]

FallbackQuestions == {QHowManyBlogs, QDoIHaveBlogs, QIsIt, QMark}

FallbackReplies ==
    {[kind |-> "transport_error", message |-> NoMessage]}
    \cup {[kind |-> "ok", message |-> [content |-> c, reasoning |-> <<>>]] :
            c \in {<<>>, LineLangGo, LineSearching, <<"x">>, LongToken}}

FallbackEnvs == [snippets : BOOLEAN, answer : {<<>>, AnswerLong},
                reply : FallbackReplies, parses : BOOLEAN]

XInitFallback ==
    /\ xpc = "call"
    /\ xEnabled \in BOOLEAN
    /\ xQuestion \in FallbackQuestions
    /\ xEnv \in IF xEnabled THEN FallbackEnvs ELSE {NoEnv}
    /\ (~xEnv.snippets => xEnv.answer = <<>>)
    /\ xResult = TranslationError
    /\ TIdle /\ FIdle /\ RIdle /\ HIdle /\ SIdle /\ IIdle /\ PIdle

SpecFallback == XInitFallback /\ [][XNext]_vars

\* the candidate query after extraction and cleanup of the reply
Candidate == ExtractAndRepair(xEnv.reply.message)

\* the candidate is empty, a single character, longer than 200 characters
\* or an explanation token
UnusableCandidate ==
    /\ xpc = "returned"
    /\ xResult.completionCalls = 1
    /\ xEnv.reply.kind = "ok"
    /\ ~Candidate.panicked
    /\ \/ Len(TrimSpace(Candidate.query)) <= 1
       \/ Len(Candidate.query) > 200
       \/ IsExplanationWord(ToLower(TrimSpace(Candidate.query)))

QueryOfLastResort ==
    IF Len(extractKeyTerms(xQuestion)) > 0
    THEN Join(extractKeyTerms(xQuestion), <<" ">>)
    ELSE xQuestion

QBlank == <<" ">>
QFindArticleAbout == <<"f", "i", "n", "d", " ", "a", "r", "t", "i", "c", "l", "e", " ", "a", "b", "o", "u", "t">>

\* values of the q parameter; the empty one is the missing parameter
QHaveAboutGo == <<"h", "a", "v", "e", " ", "a", "b", "o", "u", "t", " ", "g", "o">>
QHowManyArticles == <<"h", "o", "w", " ", "m", "a", "n", "y", " ", "a", "r", "t", "i", "c", "l", "e", "s", " ", "a", "r", "e", " ", "t", "h", "e", "r", "e">>

RequestQueries ==
    {<<>>, QBlank, QMark, QHowManyBlogs, QDoIHaveBlogs, QFindArticleAbout,
     QHaveAboutGo, QHowManyArticles}

\* values of the mode parameter
RequestModes == {"", "keyword", "semantic", "hybrid"}

\* lines 629-632: "Default to hybrid"
searchMode == IF modeParam = "" THEN "hybrid" ELSE modeParam

\* what the completion service and the grounding search answer during one
\* call of TranslateWithOpenRouter
RequestReplies ==
    {[kind |-> k, message |-> NoMessage] :
        k \in {"transport_error", "status_error"}}
    \cup {[kind |-> "ok", message |-> [content |-> c, reasoning |-> <<>>]] :
            c \in {<<>>, LineLangGo, FencedContent, LitFileColon,
                   LineContentOpen}}

RequestEnvs ==
    {e \in [snippets : BOOLEAN, answer : {<<>>, AnswerLong},
            reply : RequestReplies, parses : BOOLEAN] :
        ~e.snippets => e.answer = <<>>}

\* TranslateWithOpenRouter of an enabled translator on every request, as a
\* table (@@ makes the function an explicit one)
TranslateRequestLLM ==
    [q \in RequestQueries, env \in RequestEnvs |->
        TranslateWithOpenRouter(TRUE, q, env)] @@ <<>>

Bump(counter) == [calls EXCEPT ![counter] = @ + 1]

\* a request has reached HandleSearch
HReceived ==
    /\ pc = "received"
    /\ translatorEnabled \in BOOLEAN
    /\ semanticReady \in BOOLEAN
    /\ userQuery \in RequestQueries
    /\ modeParam \in RequestModes
    /\ directQuery \in BOOLEAN
    /\ searchQuery = <<>>
    /\ queryType = "search"
    /\ translatorUsed = "direct"
    /\ isNL = FALSE
    /\ intent = NoIntent
    /\ llm = NoTranslation
    /\ calls = NoCalls
    /\ semanticHits = <<>>
    /\ parseErr = "none"
    /\ result = NoSearch
    /\ snippetsSent = <<>>
    /\ answerReply = NoReply
    /\ response = NoResponse
    /\ TIdle /\ FIdle /\ RIdle /\ XIdle /\ SIdle /\ IIdle

HInit == HReceived /\ PIdle

\* lines 616-626: q is missing
RejectMissingQuery ==
    /\ pc = "received"
    /\ userQuery = <<>>
    /\ response' = [NoResponse EXCEPT !.status = 400, !.kind = "missing_q",
                                      !.hasError = TRUE]
    /\ pc' = "responded"
    /\ UNCHANGED <<config, request, translation, llm, calls, semanticHits,
                   keywordRun, tvars, fvars, rvars, xvars,
                   svars, ivars, pvars>>

\* lines 644-652: direct=true, the query is used as it is
UseDirectQuery ==
    /\ pc = "received"
    /\ userQuery # <<>>
    /\ directQuery
    /\ searchQuery' = userQuery
    /\ intent' = [Type |-> "search", Confidence |-> 1000]
    /\ pc' = "translated"
    /\ UNCHANGED <<config, request, queryType, translatorUsed, isNL, llm,
                   calls, semanticHits, keywordRun, response,
                   tvars, fvars, rvars, xvars, svars, ivars, pvars>>

\* s.translator.Translate(userQuery) for each question a request can carry
TranslateRequest == [q \in RequestQueries |-> Translate(q)]

\* the three identical blocks of lines 658-667, 676-686 and 690-700
BasicTranslation ==
    /\ searchQuery' = TranslateRequest[userQuery].query
    /\ intent' = [Type |-> TranslateRequest[userQuery].queryType,
                  Confidence |-> 700]
    /\ queryType' = TranslateRequest[userQuery].queryType
    /\ translatorUsed' = "basic"
    /\ isNL' = TRUE
    /\ calls' = Bump("basic")

\* lines 655-668: the LLM translator is disabled
UseBasicTranslator ==
    /\ pc = "received"
    /\ userQuery # <<>>
    /\ ~directQuery
    /\ ~translatorEnabled
    /\ BasicTranslation
    /\ pc' = "translated"
    /\ UNCHANGED <<config, request, llm, semanticHits, keywordRun, response,
                   tvars, fvars, rvars, xvars, svars, ivars, pvars>>

\* line 671: zoektQuery, intent, err = TranslateWithOpenRouter(userQuery)
CallLLMTranslator ==
    /\ pc = "received"
    /\ userQuery # <<>>
    /\ ~directQuery
    /\ translatorEnabled
    /\ \E env \in RequestEnvs :
          llm' = TranslateRequestLLM[userQuery, env]
    /\ searchQuery' = llm'.query
    /\ intent' = [Type |-> llm'.intentType, Confidence |-> llm'.confidence]
    /\ calls' = [calls EXCEPT
                    !["llm"] = @ + 1,
                    !["completion"] = @ + llm'.completionCalls,
                    !["answer"] = @ + llm'.answerCalls]
    /\ pc' = "llm_returned"
    /\ UNCHANGED <<config, request, queryType, translatorUsed, isNL,
                   semanticHits, keywordRun, response,
                   tvars, fvars, rvars, xvars, svars, ivars, pvars>>

\* The slice index of line 345 is out of range: the handler's goroutine
\* panics and no response body is written.
HandlerPanics ==
    /\ pc = "llm_returned"
    /\ llm.outcome = "panic"
    /\ pc' = "crashed"
    /\ UNCHANGED <<config, request, translation, llm, calls, semanticHits,
                   keywordRun, response, tvars, fvars, rvars, xvars,
                   svars, ivars, pvars>>

\* the handler answers a failed translation with an error instead of
\* falling back
FailOnTranslatorError ==
    /\ pc = "llm_returned"
    /\ \/ llm.outcome = "error"
       \/ llm.outcome = "ok" /\ searchQuery = <<>>
    /\ response' = [NoResponse EXCEPT !.status = 500, !.kind = "failed",
                                      !.hasError = TRUE]
    /\ pc' = "responded"
    /\ UNCHANGED <<config, request, translation, llm, calls, semanticHits,
                   keywordRun, tvars, fvars, rvars, xvars,
                   svars, ivars, pvars>>

\* lines 672-700: err != nil, or an empty query
FallbackToBasic ==
    /\ pc = "llm_returned"
    /\ \/ llm.outcome = "error"
       \/ llm.outcome = "ok" /\ searchQuery = <<>>
    /\ BasicTranslation
    /\ pc' = "translated"
    /\ UNCHANGED <<config, request, llm, semanticHits, keywordRun, response,
                   tvars, fvars, rvars, xvars, svars, ivars, pvars>>

\* the handler takes the marked answer for a query and goes on to retrieval
ExecuteDirectAnswer ==
    /\ pc = "llm_returned"
    /\ llm.outcome = "ok"
    /\ searchQuery # <<>>
    /\ HasPrefix(searchQuery, LitDirectAnswer)
    /\ queryType' = intent.Type
    /\ translatorUsed' = "openrouter"
    /\ isNL' = TRUE
    /\ pc' = "translated"
    /\ UNCHANGED <<config, request, searchQuery, intent, llm, calls,
                   semanticHits, keywordRun, response,
                   tvars, fvars, rvars, xvars, svars, ivars, pvars>>

\* lines 703-734: the translator returned a direct answer
RespondDirectAnswer ==
    /\ pc = "llm_returned"
    /\ llm.outcome = "ok"
    /\ searchQuery # <<>>
    /\ HasPrefix(searchQuery, LitDirectAnswer)
    /\ response' = [NoResponse EXCEPT
                       !.status = 200, !.kind = "direct_answer",
                       !.success = TRUE, !.queryType = "answer",
                       !.isNL = TRUE, !.translatorUsed = "openrouter",
                       !.directAnswer = TrimPrefix(searchQuery, LitDirectAnswer),
                       !.yesNoAnswer = [kind |-> "llm",
                                        n |-> 0,
                                        text |-> TrimPrefix(searchQuery,
                                                            LitDirectAnswer)]]
    /\ pc' = "responded"
    /\ UNCHANGED <<config, request, translation, llm, calls, semanticHits,
                   keywordRun, tvars, fvars, rvars, xvars,
                   svars, ivars, pvars>>

\* the handler runs the pattern translator as well and keeps the generated
\* query
AcceptLLMQueryAfterBasic ==
    /\ pc = "llm_returned"
    /\ llm.outcome = "ok"
    /\ searchQuery # <<>>
    /\ ~HasPrefix(searchQuery, LitDirectAnswer)
    /\ queryType' = intent.Type
    /\ translatorUsed' = "openrouter"
    /\ isNL' = TRUE
    /\ calls' = Bump("basic")
    /\ pc' = "translated"
    /\ UNCHANGED <<config, request, searchQuery, intent, llm,
                   semanticHits, keywordRun, response,
                   tvars, fvars, rvars, xvars, svars, ivars, pvars>>

\* lines 736-742: the generated query is used
AcceptLLMQuery ==
    /\ pc = "llm_returned"
    /\ llm.outcome = "ok"
    /\ searchQuery # <<>>
    /\ ~HasPrefix(searchQuery, LitDirectAnswer)
    /\ queryType' = intent.Type
    /\ translatorUsed' = "openrouter"
    /\ isNL' = TRUE
    /\ pc' = "translated"
    /\ UNCHANGED <<config, request, searchQuery, intent, llm, calls,
                   semanticHits, keywordRun, response,
                   tvars, fvars, rvars, xvars, svars, ivars, pvars>>

(***************************************************************************)
(* HandleSearch, lines 747-925: retrieval and the response                 *)
(***************************************************************************)
\* replies of the vector store to Search(nlQuery, 20): file and distance of
\* each hit
RequestVectorReplies ==
    UNION {[1..n -> {"a.py"} \X {-108, 0, 36}] : n \in 0..MaxHits}

\* result, err of s.searcher.Search
RequestKeywordResults ==
    {NoSearch, [NoSearch EXCEPT !.failed = TRUE]}
    \cup {[IsNil |-> FALSE, Files |-> fs, failed |-> FALSE] :
            fs \in {<<>>,
                    <<[FileName |-> "a.py", LineMatches |-> 2]>>,
                    <<[FileName |-> "c.js", LineMatches |-> 0]>>,
                    <<[FileName |-> "a.py", LineMatches |-> 0],
                      [FileName |-> "c.js", LineMatches |-> 2]>>,
                    <<[FileName |-> "a.py", LineMatches |-> 1],
                      [FileName |-> "b.go", LineMatches |-> 1],
                      [FileName |-> "c.js", LineMatches |-> 1],
                      [FileName |-> "d.md", LineMatches |-> 1]>>}}

WantsSemantic ==
    semanticReady /\ searchMode \in {"semantic", "hybrid"}

\* line 749: no semantic engine, or keyword mode
SkipSemantic ==
    /\ pc = "translated"
    /\ ~WantsSemantic
    /\ pc' = "retrieved"
    /\ UNCHANGED <<config, request, translation, llm, calls, semanticHits,
                   keywordRun, response, tvars, fvars, rvars, xvars,
                   svars, ivars, pvars>>

\* the handler gives up when the index is not there
FailWhenNotIndexed ==
    /\ pc = "translated"
    /\ WantsSemantic
    /\ calls' = Bump("isIndexed")
    /\ response' = [NoResponse EXCEPT !.status = 503, !.kind = "failed",
                                      !.hasError = TRUE]
    /\ pc' = "responded"
    /\ UNCHANGED <<config, request, translation, llm, semanticHits,
                   keywordRun, tvars, fvars, rvars, xvars,
                   svars, ivars, pvars>>

\* lines 750-761: IsIndexed says false (an empty collection, a status other
\* than 200, or an error, which line 750 drops)
SemanticNotIndexed ==
    /\ pc = "translated"
    /\ WantsSemantic
    /\ calls' = Bump("isIndexed")
    /\ pc' = "retrieved"
    /\ UNCHANGED <<config, request, translation, llm, semanticHits,
                   keywordRun, response, tvars, fvars, rvars, xvars,
                   svars, ivars, pvars>>

\* Mutant: after a failed search the handler drops the semantic service
SemanticSearchGivesUp ==
    /\ pc = "translated"
    /\ WantsSemantic
    /\ \/ \E reply \in RequestVectorReplies :
             /\ semanticHits' = SemanticResultsOf(reply)
             /\ semanticReady' = semanticReady
       \/ semanticHits' = <<>> /\ semanticReady' = FALSE
    /\ calls' = [calls EXCEPT !["isIndexed"] = @ + 1, !["semantic"] = @ + 1]
    /\ pc' = "retrieved"
    /\ UNCHANGED <<translatorEnabled, request, translation, llm, keywordRun,
                   response, tvars, fvars, rvars, xvars, svars, ivars, pvars>>

\* lines 751-758: the index is there and Search returns
SemanticSearch ==
    /\ pc = "translated"
    /\ WantsSemantic
    /\ \/ \E reply \in RequestVectorReplies :
             semanticHits' = SemanticResultsOf(reply)
       \/ semanticHits' = <<>>          \* err != nil
    /\ calls' = [calls EXCEPT !["isIndexed"] = @ + 1, !["semantic"] = @ + 1]
    /\ pc' = "retrieved"
    /\ UNCHANGED <<config, request, translation, llm, keywordRun, response,
                   tvars, fvars, rvars, xvars, svars, ivars, pvars>>

\* semantic_search.go lines 111-114: a reply whose ids, metadatas or
\* distances is not a list of lists fails a type assertion
SemanticSearchPanics ==
    /\ pc = "translated"
    /\ WantsSemantic
    /\ calls' = [calls EXCEPT !["isIndexed"] = @ + 1, !["semantic"] = @ + 1]
    /\ pc' = "crashed"
    /\ UNCHANGED <<config, request, translation, llm, semanticHits, keywordRun,
                   response, tvars, fvars, rvars, xvars, svars, ivars, pvars>>

SemanticResponse(mode, note) ==
    [NoResponse EXCEPT
        !.status = 200, !.kind = "semantic", !.success = TRUE,
        !.queryType = "semantic", !.isNL = TRUE,
        !.resultCount = Len(semanticHits),
        !.semanticResults = semanticHits, !.mode = mode, !.note = note]

\* lines 765-779
RespondSemanticOnly ==
    /\ pc = "retrieved"
    /\ searchMode = "semantic"
    /\ Len(semanticHits) > 0
    /\ response' = SemanticResponse("semantic", FALSE)
    /\ pc' = "responded"
    /\ UNCHANGED <<config, request, translation, llm, calls, semanticHits,
                   keywordRun, tvars, fvars, rvars, xvars,
                   svars, ivars, pvars>>

ReachesParse ==
    /\ pc = "retrieved"
    /\ ~(searchMode = "semantic" /\ Len(semanticHits) > 0)

\* the handler reports the parse error although semantic results exist
FailDespiteSemanticResults ==
    /\ ReachesParse
    /\ Len(semanticHits) > 0
    /\ calls' = Bump("parse")
    /\ parseErr' = "error"
    /\ response' = [NoResponse EXCEPT
                       !.status = 400, !.kind = "parse_error",
                       !.hasError = TRUE, !.translatedQuery = searchQuery]
    /\ pc' = "responded"
    /\ UNCHANGED <<config, request, translation, llm, semanticHits,
                   result, snippetsSent, answerReply,
                   tvars, fvars, rvars, xvars, svars, ivars, pvars>>

\* lines 782-800: query.Parse fails and there are semantic results
RespondSemanticFallback ==
    /\ ReachesParse
    /\ Len(semanticHits) > 0
    /\ calls' = Bump("parse")
    /\ parseErr' = "error"
    /\ response' = SemanticResponse("hybrid", TRUE)
    /\ pc' = "responded"
    /\ UNCHANGED <<config, request, translation, llm, semanticHits,
                   result, snippetsSent, answerReply,
                   tvars, fvars, rvars, xvars, svars, ivars, pvars>>

\* lines 782-812: query.Parse fails and there is nothing else to return
RespondParseError ==
    /\ ReachesParse
    /\ Len(semanticHits) = 0
    /\ calls' = Bump("parse")
    /\ response' = [NoResponse EXCEPT
                       !.status = 400, !.kind = "parse_error",
                       !.hasError = TRUE, !.translatedQuery = searchQuery]
    /\ parseErr' = "error"
    /\ pc' = "responded"
    /\ UNCHANGED <<config, request, translation, llm, semanticHits,
                   result, snippetsSent, answerReply,
                   tvars, fvars, rvars, xvars, svars, ivars, pvars>>

\* lines 782 and 815-820: the query parses and the keyword search runs
KeywordSearch ==
    /\ ReachesParse
    /\ parseErr' = "nil"
    /\ result' \in RequestKeywordResults
    /\ calls' = [calls EXCEPT !["parse"] = @ + 1, !["keyword"] = @ + 1]
    /\ pc' = "searched"
    /\ UNCHANGED <<config, request, translation, llm, semanticHits,
                   snippetsSent, answerReply, response,
                   tvars, fvars, rvars, xvars, svars, ivars, pvars>>

RECURSIVE SumLineMatches(_)
\* lines 831-835
SumLineMatches(files) ==
    IF files = <<>> THEN 0
    ELSE files[1].LineMatches + SumLineMatches(Tail(files))

\* only the first file's line matches are counted
lineMatchCountOfFirstFile ==
    IF ~result.IsNil /\ queryType = "count" /\ Len(result.Files) > 0
    THEN result.Files[1].LineMatches ELSE 0

\* lines 824-840
lineMatchCount ==
    IF ~result.IsNil /\ queryType = "count"
    THEN SumLineMatches(result.Files) ELSE 0

\* lines 823-840
resultCount ==
    IF result.IsNil THEN 0
    ELSE IF lineMatchCount > 0 THEN lineMatchCount
    ELSE Len(result.Files)

\* a snippet for every file, whatever maxFiles is
extractAnswerSnippetsOfAll(files, maxFiles) ==
    [i \in 1..Len(files) |-> files[i].FileName]

\* lines 928-960: one snippet for each of the first maxFiles files
extractAnswerSnippets(files, maxFiles) ==
    [i \in 1..(IF Len(files) < maxFiles THEN Len(files) ELSE maxFiles) |->
        files[i].FileName]

\* lines 843-853: whether AnswerFromSnippets is called
AsksForAnswer ==
    /\ ~result.IsNil
    /\ queryType = "yesno"
    /\ resultCount > 0
    /\ Len(extractAnswerSnippets(result.Files, 3)) > 0

AnswerPadded == <<" ">> \o AnswerLong \o <<" ">>

\* what the completion service replies to AnswerFromSnippets
SnippetReplies ==
    {[kind |-> k, content |-> <<>>] : k \in {"transport_error", "status_error"}}
    \cup {[kind |-> "ok", content |-> c] :
            c \in {<<>>, <<" ">>, AnswerLong, AnswerPadded}}

\* openrouter_translator.go lines 971-1043
AnswerFromSnippets(enabled, snippets, reply) ==
    IF ~enabled \/ Len(snippets) = 0 THEN <<>>
    ELSE IF reply.kind = "ok" THEN TrimSpace(reply.content)
    ELSE <<>>

\* the completion service is asked whether or not it is configured
AsksCompletionUnconfigured == AsksForAnswer

\* lines 845-848: the completion service is asked only by an enabled
\* translator that was given snippets
AsksCompletion == AsksForAnswer /\ translatorEnabled

\* lines 857-866
YesNoAnswerOf(directAnswer) ==
    IF queryType # "yesno" THEN NoAnswer
    ELSE IF directAnswer # <<>>
         THEN [kind |-> "llm", n |-> 0, text |-> directAnswer]
    ELSE IF resultCount > 0
         THEN [kind |-> "yes_found", n |-> resultCount, text |-> <<>>]
    ELSE [kind |-> "no_results", n |-> 0, text |-> <<>>]

\* lines 869-878
CountAnswerOf ==
    IF queryType # "count" THEN NoAnswer
    ELSE IF lineMatchCount > 0
         THEN [kind |-> "items", n |-> lineMatchCount, text |-> <<>>]
    ELSE IF resultCount > 0
         THEN [kind |-> "files", n |-> resultCount, text |-> <<>>]
    ELSE [kind |-> "zero_items", n |-> 0, text |-> <<>>]

\* lines 909-918
Enhances ==
    searchMode = "hybrid" /\ Len(semanticHits) > 0 /\ ~result.IsNil

\* lines 822-924
RespondResults ==
    /\ pc = "searched"
    /\ snippetsSent' = IF AsksForAnswer
                       THEN extractAnswerSnippets(result.Files, 3) ELSE <<>>
    /\ answerReply' \in IF AsksCompletion THEN SnippetReplies ELSE {NoReply}
    /\ LET directAnswer ==
              IF AsksForAnswer
              THEN AnswerFromSnippets(translatorEnabled, snippetsSent',
                                      answerReply')
              ELSE <<>>
       IN response' =
             [NoResponse EXCEPT
                 !.status = 200, !.kind = "results",
                 !.success = ~result.failed, !.hasError = result.failed,
                 !.queryType = queryType, !.translatorUsed = translatorUsed,
                 !.isNL = isNL, !.translatedQuery = searchQuery,
                 !.resultCount = resultCount, !.mode = searchMode,
                 !.enhanced = Enhances,
                 !.semanticResults =
                     IF Enhances
                     THEN enhanceSemanticWithZoekt(semanticHits, result, FALSE)
                     ELSE semanticHits,
                 !.yesNoAnswer = YesNoAnswerOf(directAnswer),
                 !.countAnswer = CountAnswerOf,
                 !.directAnswer = directAnswer,
                 !.results = result]
    /\ calls' = [calls EXCEPT
                    !["snippetAnswer"] = IF AsksForAnswer THEN @ + 1 ELSE @,
                    !["completion"] = IF AsksCompletion THEN @ + 1 ELSE @]
    /\ pc' = "responded"
    /\ UNCHANGED <<config, request, translation, llm, semanticHits,
                   parseErr, result,
                   tvars, fvars, rvars, xvars, svars, ivars, pvars>>

Next ==
    \/ RejectMissingQuery
    \/ UseDirectQuery
    \/ UseBasicTranslator
    \/ CallLLMTranslator
    \/ HandlerPanics
    \/ FallbackToBasic
    \/ RespondDirectAnswer
    \/ AcceptLLMQuery
    \/ SkipSemantic
    \/ SemanticNotIndexed
    \/ SemanticSearch
    \/ SemanticSearchPanics
    \/ RespondSemanticOnly
    \/ RespondSemanticFallback
    \/ RespondParseError
    \/ KeywordSearch
    \/ RespondResults

Spec == HInit /\ [][Next]_vars
(***************************************************************************)
(* NLQueryServer.HandleAsk (part_002 lines 421-535): one request           *)
(***************************************************************************)
\* a request has reached HandleAsk
AskReceived ==
    /\ pc = "ask_received"
    /\ translatorEnabled \in BOOLEAN
    /\ semanticReady = FALSE
    /\ userQuery \in RequestQueries
    /\ modeParam = ""
    /\ directQuery = FALSE
    /\ searchQuery = <<>>
    /\ queryType = "search"
    /\ translatorUsed = "direct"
    /\ isNL = FALSE
    /\ intent = NoIntent
    /\ llm = NoTranslation
    /\ calls = NoCalls
    /\ semanticHits = <<>>
    /\ parseErr = "none"
    /\ result = NoSearch
    /\ snippetsSent = <<>>
    /\ answerReply = NoReply
    /\ response = NoResponse
    /\ TIdle /\ FIdle /\ RIdle /\ XIdle /\ SIdle /\ IIdle

AskInit == AskReceived /\ PIdle

\* lines 425-434: q is missing
AskRejectMissingQuestion ==
    /\ pc = "ask_received"
    /\ userQuery = <<>>
    /\ response' = [NoResponse EXCEPT !.status = 400, !.kind = "ask_missing_q",
                                      !.hasError = TRUE]
    /\ pc' = "responded"
    /\ UNCHANGED <<config, request, translation, llm, calls, semanticHits,
                   keywordRun, tvars, fvars, rvars, xvars,
                   svars, ivars, pvars>>

\* lines 443-445: zoektQuery, _, searchErr = TranslateWithOpenRouter(question)
AskTranslate ==
    /\ pc = "ask_received"
    /\ userQuery # <<>>
    /\ translatorEnabled
    /\ \E env \in RequestEnvs :
          llm' = TranslateRequestLLM[userQuery, env]
    /\ searchQuery' = llm'.query
    /\ calls' = [calls EXCEPT
                    !["llm"] = @ + 1,
                    !["completion"] = @ + llm'.completionCalls,
                    !["answer"] = @ + llm'.answerCalls]
    /\ pc' = IF llm'.outcome = "panic" THEN "crashed" ELSE "ask_translated"
    /\ UNCHANGED <<config, request, queryType, translatorUsed, isNL, intent,
                   semanticHits, keywordRun, response,
                   tvars, fvars, rvars, xvars, svars, ivars, pvars>>

\* line 443: the translator is disabled, step 1 is skipped
AskSkipTranslate ==
    /\ pc = "ask_received"
    /\ userQuery # <<>>
    /\ ~translatorEnabled
    /\ pc' = "ask_searched"
    /\ UNCHANGED <<config, request, translation, llm, calls, semanticHits,
                   keywordRun, response, tvars, fvars, rvars, xvars,
                   svars, ivars, pvars>>

AskHasQuery == llm.outcome = "ok" /\ searchQuery # <<>>

\* line 446 is false: the translation failed or is empty
AskNoQuery ==
    /\ pc = "ask_translated"
    /\ ~AskHasQuery
    /\ pc' = "ask_searched"
    /\ UNCHANGED <<config, request, translation, llm, calls, semanticHits,
                   keywordRun, response, tvars, fvars, rvars, xvars,
                   svars, ivars, pvars>>

\* lines 448 and 464-467: a direct answer is not a query, it is cleared
AskDropDirectAnswer ==
    /\ pc = "ask_translated"
    /\ AskHasQuery
    /\ HasPrefix(searchQuery, LitDirectAnswer)
    /\ searchQuery' = <<>>
    /\ pc' = "ask_searched"
    /\ UNCHANGED <<config, request, queryType, translatorUsed, isNL, intent,
                   llm, calls, semanticHits, keywordRun, response,
                   tvars, fvars, rvars, xvars, svars, ivars, pvars>>

\* lines 450-451: query.Parse rejects the query
AskParseFails ==
    /\ pc = "ask_translated"
    /\ AskHasQuery
    /\ ~HasPrefix(searchQuery, LitDirectAnswer)
    /\ parseErr' = "error"
    /\ calls' = Bump("parse")
    /\ pc' = "ask_searched"
    /\ UNCHANGED <<config, request, translation, llm, semanticHits,
                   result, snippetsSent, answerReply, response,
                   tvars, fvars, rvars, xvars, svars, ivars, pvars>>

\* lines 450-462: the query parses and is executed
AskSearch ==
    /\ pc = "ask_translated"
    /\ AskHasQuery
    /\ ~HasPrefix(searchQuery, LitDirectAnswer)
    /\ parseErr' = "nil"
    /\ result' \in RequestKeywordResults
    /\ calls' = [calls EXCEPT !["parse"] = @ + 1, !["keyword"] = @ + 1]
    /\ pc' = "ask_searched"
    /\ UNCHANGED <<config, request, translation, llm, semanticHits,
                   snippetsSent, answerReply, response,
                   tvars, fvars, rvars, xvars, svars, ivars, pvars>>

\* lines 276-399 for files without Content whose matches have fewer than
\* 100 lines in all: one snippet for each of the first maxFiles files
AskSnippets(files, maxFiles) ==
    [i \in 1..(IF Len(files) < maxFiles THEN Len(files) ELSE maxFiles) |->
        files[i].FileName]

\* lines 472-476
codeSnippets ==
    IF ~result.IsNil /\ Len(result.Files) > 0
    THEN AskSnippets(result.Files, 10) ELSE <<>>

\* lines 500-508: the translator is not available
AskRespondUnavailable ==
    /\ pc = "ask_searched"
    /\ ~translatorEnabled
    /\ response' = [NoResponse EXCEPT !.status = 503,
                                      !.kind = "ask_unavailable",
                                      !.hasError = TRUE]
    /\ pc' = "responded"
    /\ UNCHANGED <<config, request, translation, llm, calls, semanticHits,
                   keywordRun, tvars, fvars, rvars, xvars,
                   svars, ivars, pvars>>

\* lines 482-533: the answer from the snippets, or status 500 without one
AskRespond ==
    /\ pc = "ask_searched"
    /\ translatorEnabled
    /\ snippetsSent' = codeSnippets
    /\ answerReply' \in IF Len(codeSnippets) > 0 THEN SnippetReplies
                                                 ELSE {NoReply}
    /\ LET answer == AnswerFromSnippets(translatorEnabled, codeSnippets,
                                        answerReply')
       IN response' =
             IF Len(codeSnippets) > 0 /\ answer # <<>>
             THEN [NoResponse EXCEPT
                      !.status = 200, !.kind = "ask_answer",
                      !.success = TRUE, !.directAnswer = answer,
                      !.translatedQuery = searchQuery,
                      !.resultCount = Len(result.Files)]
             ELSE [NoResponse EXCEPT
                      !.status = 500, !.kind = "ask_failed",
                      !.hasError = TRUE]
    /\ calls' = [calls EXCEPT
                    !["snippetAnswer"] = IF Len(codeSnippets) > 0
                                         THEN @ + 1 ELSE @,
                    !["completion"] = IF Len(codeSnippets) > 0
                                      THEN @ + 1 ELSE @]
    /\ pc' = "responded"
    /\ UNCHANGED <<config, request, translation, llm, semanticHits,
                   parseErr, result, tvars, fvars, rvars, xvars,
                   svars, ivars, pvars>>

AskNext ==
    \/ AskRejectMissingQuestion
    \/ AskTranslate
    \/ AskSkipTranslate
    \/ AskNoQuery
    \/ AskDropDirectAnswer
    \/ AskParseFails
    \/ AskSearch
    \/ AskRespondUnavailable
    \/ AskRespond

\* the server with both routes: a request to /api/nl-search or to /api/ask
ServerInit == HInit \/ AskInit

ServerNext == Next \/ AskNext

SpecServer == ServerInit /\ [][ServerNext]_vars

(***************************************************************************)
(* Outbound calls whose peer never replies                                 *)
(***************************************************************************)
\* the Timeout, in seconds, of the http.Client or context of each outbound
\* call; NoTimeout is the zero value, which waits for ever
NoTimeout == 0

TimeoutOf ==
    [translate |-> NoTimeout,     \* &http.Client{}
     answer |-> 10,
     embed |-> 30,
     vectorQuery |-> 30,
     isIndexed |-> 10,
     keyword |-> NoTimeout]       \* context.Background()

\* openrouter_translator.go lines 223-224: client.Do(req) of the query
\* generation never returns
TranslateCallHangs ==
    /\ pc \in {"received", "ask_received"}
    /\ userQuery # <<>>
    /\ ~directQuery
    /\ translatorEnabled
    /\ TimeoutOf.translate = NoTimeout
    /\ calls' = [calls EXCEPT !["llm"] = @ + 1, !["completion"] = @ + 1]
    /\ pc' = "waiting"
    /\ UNCHANGED <<config, request, translation, llm, semanticHits,
                   keywordRun, response, tvars, fvars, rvars, xvars,
                   svars, ivars, pvars>>

\* part_002 lines 457-458 and 819: s.searcher.Search never returns
KeywordSearchHangs ==
    /\ \/ ReachesParse
       \/ /\ pc = "ask_translated"
          /\ AskHasQuery
          /\ ~HasPrefix(searchQuery, LitDirectAnswer)
    /\ TimeoutOf.keyword = NoTimeout
    /\ parseErr' = "nil"
    /\ calls' = [calls EXCEPT !["parse"] = @ + 1, !["keyword"] = @ + 1]
    /\ pc' = "waiting"
    /\ UNCHANGED <<config, request, translation, llm, semanticHits,
                   result, snippetsSent, answerReply, response,
                   tvars, fvars, rvars, xvars, svars, ivars, pvars>>

\* the calls with a Timeout end in the error paths of ServerNext
TimedNext ==
    \/ ServerNext
    \/ TranslateCallHangs
    \/ KeywordSearchHangs

\* the handler's goroutine keeps running while it can
SpecTimed == ServerInit /\ [][TimedNext]_vars /\ WF_vars(TimedNext)

(***************************************************************************)
(* Two requests served at the same time.  net/http runs each handler call  *)
(* on its own goroutine; the goroutines share the NLQueryServer (config)   *)
(* and nothing else.  The variables of the handler are those of the        *)
(* request that takes the next step; parked holds the locals of the other  *)
(* request, and Switch hands the processor over.                           *)
(***************************************************************************)
\* the locals of the handler call that is stepping
Locals ==
    [userQuery |-> userQuery, modeParam |-> modeParam,
     directQuery |-> directQuery, pc |-> pc, searchQuery |-> searchQuery,
     queryType |-> queryType, translatorUsed |-> translatorUsed,
     isNL |-> isNL, intent |-> intent, llm |-> llm, calls |-> calls,
     semanticHits |-> semanticHits, parseErr |-> parseErr, result |-> result,
     snippetsSent |-> snippetsSent, answerReply |-> answerReply,
     response |-> response]

\* the locals of a handler call that has not taken a step
NewRequest(q, mode, direct) ==
    [userQuery |-> q, modeParam |-> mode, directQuery |-> direct,
     pc |-> "received", searchQuery |-> <<>>, queryType |-> "search",
     translatorUsed |-> "direct", isNL |-> FALSE, intent |-> NoIntent,
     llm |-> NoTranslation, calls |-> NoCalls, semanticHits |-> <<>>,
     parseErr |-> "none", result |-> NoSearch, snippetsSent |-> <<>>,
     answerReply |-> NoReply, response |-> NoResponse]

\* q, mode and direct of the requests that meet
PairDirectRequests == {<<QMark, "keyword", TRUE>>}

PairRequests ==
    PairDirectRequests \cup
        {<<(<<>>), "", FALSE>>, <<QMark, "hybrid", TRUE>>,
         <<QDoIHaveBlogs, "semantic", FALSE>>}

PairInit ==
    /\ \/ HReceived /\ <<userQuery, modeParam, directQuery>> \in PairRequests
       \/ AskReceived
    /\ \E r \in PairDirectRequests : parked = NewRequest(r[1], r[2], r[3])

\* the scheduler runs the other goroutine
Switch ==
    /\ parked # NoParked
    /\ parked' = Locals
    /\ userQuery' = parked.userQuery
    /\ modeParam' = parked.modeParam
    /\ directQuery' = parked.directQuery
    /\ pc' = parked.pc
    /\ searchQuery' = parked.searchQuery
    /\ queryType' = parked.queryType
    /\ translatorUsed' = parked.translatorUsed
    /\ isNL' = parked.isNL
    /\ intent' = parked.intent
    /\ llm' = parked.llm
    /\ calls' = parked.calls
    /\ semanticHits' = parked.semanticHits
    /\ parseErr' = parked.parseErr
    /\ result' = parked.result
    /\ snippetsSent' = parked.snippetsSent
    /\ answerReply' = parked.answerReply
    /\ response' = parked.response
    /\ UNCHANGED <<config, tvars, fvars, rvars, xvars, svars, ivars>>

PairNext == ServerNext \/ Switch

SpecPair == PairInit /\ [][PairNext]_vars

(***************************************************************************)
(* NLQueryServer.extractAnswerSnippets: the version with line budgets      *)
(* (part_002 lines 276-399) and the version without (lines 928-960).       *)
(* A file's Content is the sequence of its lines after                     *)
(* strings.Split(content, "\n"), each line reduced to whether it is        *)
(* non-empty after TrimRight; Before and After of a match are numbers of   *)
(* non-blank lines, Line is whether the matched line is non-blank.         *)
(* Line indices are the 0-based indices of the code.                       *)
(***************************************************************************)
targetLinesTotal == 100

\* lines 280-283
linesPerFileOf(maxFiles) ==
    IF targetLinesTotal \div maxFiles < 15 THEN 15
    ELSE targetLinesTotal \div maxFiles

WithinBudgets(linesPerFile, acc) ==
    acc.fileLines < linesPerFile /\ acc.totalLines < targetLinesTotal

CountLine(acc) ==
    [acc EXCEPT !.fileLines = @ + 1, !.totalLines = @ + 1]

\* allLines[i] is evaluated
ReadLine(acc, i) ==
    [acc EXCEPT !.maxRead = IF i > @ THEN i ELSE @]

RECURSIVE AroundMatch(_, _, _, _, _, _)
\* lines 317-325: for i := startLine; i < endLine && ...; i++
AroundMatch(allLines, i, endLine, lineNum, linesPerFile, acc) ==
    IF acc.panicked \/ ~(i < endLine /\ WithinBudgets(linesPerFile, acc))
    THEN acc
    ELSE IF i >= Len(allLines)
         THEN [ReadLine(acc, i) EXCEPT !.panicked = TRUE]
    ELSE AroundMatch(allLines, i + 1, endLine, lineNum, linesPerFile,
                     IF allLines[i + 1] \/ i = lineNum - 1
                     THEN CountLine(ReadLine(acc, i))
                     ELSE ReadLine(acc, i))

RECURSIVE ContentMatches(_, _, _, _, _)
\* lines 301-326: the matches of a file that has Content
ContentMatches(allLines, matches, k, linesPerFile, acc) ==
    IF k > Len(matches) \/ acc.panicked \/ ~WithinBudgets(linesPerFile, acc)
    THEN acc
    ELSE LET lineNum == matches[k].LineNumber
             startLine == IF lineNum - 10 < 0 THEN 0 ELSE lineNum - 10
             endLine == IF lineNum + 10 > Len(allLines) THEN Len(allLines)
                        ELSE lineNum + 10
         IN  ContentMatches(allLines, matches, k + 1, linesPerFile,
                            AroundMatch(allLines, startLine, endLine, lineNum,
                                        linesPerFile, acc))

RECURSIVE FirstLines(_, _, _, _)
\* lines 328-340: no line matches, the first extractCount lines
FirstLines(allLines, i, extractCount, acc) ==
    IF acc.panicked \/ ~(i < extractCount /\ acc.totalLines < targetLinesTotal)
    THEN acc
    ELSE IF i >= Len(allLines)
         THEN [ReadLine(acc, i) EXCEPT !.panicked = TRUE]
    ELSE FirstLines(allLines, i + 1, extractCount, CountLine(ReadLine(acc, i)))

RECURSIVE TakeLines(_, _, _)
\* lines 351-359, 373-381: the non-blank lines of Before or After
TakeLines(n, linesPerFile, acc) ==
    IF n = 0 \/ ~WithinBudgets(linesPerFile, acc) THEN acc
    ELSE TakeLines(n - 1, linesPerFile, CountLine(acc))

\* lines 348-383: Before, the matched line and After of one match
ContextOfMatch(match, linesPerFile, acc) ==
    TakeLines(match.After, linesPerFile,
              TakeLines(IF match.Line THEN 1 ELSE 0, linesPerFile,
                        TakeLines(match.Before, linesPerFile, acc)))

RECURSIVE ContextMatches(_, _, _, _)
\* lines 342-384: the matches of a file without Content
ContextMatches(matches, k, linesPerFile, acc) ==
    IF k > Len(matches) \/ ~WithinBudgets(linesPerFile, acc) THEN acc
    ELSE ContextMatches(matches, k + 1, linesPerFile,
                        ContextOfMatch(matches[k], linesPerFile, acc))

\* lines 294-385: the content lines taken from one file
BudgetedFile(file, linesPerFile, totalLines) ==
    LET acc == [fileLines |-> 0, totalLines |-> totalLines, maxRead |-> -1,
                panicked |-> FALSE]
    IN  IF Len(file.Content) > 0
        THEN IF Len(file.LineMatches) > 0
             THEN ContentMatches(file.Content, file.LineMatches, 1,
                                 linesPerFile, acc)
             ELSE FirstLines(file.Content, 0,
                             IF linesPerFile > Len(file.Content)
                             THEN Len(file.Content) ELSE linesPerFile,
                             acc)
        ELSE IF Len(file.LineMatches) > 0
             THEN ContextMatches(file.LineMatches, 1, linesPerFile, acc)
        ELSE acc

SnippetOf(file, acc) ==
    [FileName |-> file.FileName, lines |-> acc.fileLines,
     maxRead |-> acc.maxRead, contentLen |-> Len(file.Content)]

RECURSIVE BudgetedFiles(_, _, _, _)
\* lines 286-393: for _, file := range result.Files
BudgetedFiles(files, k, maxFiles, out) ==
    IF \/ k > Len(files)
       \/ out.panicked
       \/ Len(out.snippets) >= maxFiles
       \/ out.totalLines >= targetLinesTotal
    THEN out
    ELSE BudgetedFiles(files, k + 1, maxFiles,
            [snippets |->
                Append(out.snippets,
                       SnippetOf(files[k],
                                 BudgetedFile(files[k], linesPerFileOf(maxFiles),
                                              out.totalLines))),
             totalLines |->
                BudgetedFile(files[k], linesPerFileOf(maxFiles),
                             out.totalLines).totalLines,
             panicked |->
                BudgetedFile(files[k], linesPerFileOf(maxFiles),
                             out.totalLines).panicked])

\* part_002 lines 276-399
BudgetedSnippets(files, maxFiles) == BudgetedFiles(files, 1, maxFiles, NoSnippets)

RECURSIVE MatchLines(_, _)
\* lines 938-955: Before, Line and After of the first five matches
MatchLines(matches, k) ==
    IF k > Len(matches) \/ k > 5 THEN 0
    ELSE matches[k].Before + 1 + matches[k].After + MatchLines(matches, k + 1)

RECURSIVE SumOfLines(_, _)
SumOfLines(snippets, k) ==
    IF k > Len(snippets) THEN 0
    ELSE snippets[k].lines + SumOfLines(snippets, k + 1)

\* part_002 lines 928-960
MatchSnippets(files, maxFiles) ==
    LET snippets ==
            [k \in 1..(IF Len(files) < maxFiles THEN Len(files) ELSE maxFiles)
                |-> [FileName |-> files[k].FileName,
                     lines |-> MatchLines(files[k].LineMatches, 1),
                     maxRead |-> -1,
                     contentLen |-> Len(files[k].Content)]]
    IN  [snippets |-> snippets, totalLines |-> SumOfLines(snippets, 1),
         panicked |-> FALSE]

(***************************************************************************)
(* Inputs of extractAnswerSnippets: results of up to MaxSnippetFiles files *)
(* and several values of maxFiles                                          *)
(***************************************************************************)
FullLines(n) == [i \in 1..n |-> TRUE]

LineMatchAt(lineNumber) ==
    [LineNumber |-> lineNumber, Before |-> 0, Line |-> TRUE, After |-> 0]

MatchWithContext(before, after) ==
    [LineNumber |-> 1, Before |-> before, Line |-> TRUE, After |-> after]

SnippetFiles ==
    {[FileName |-> "a.py", Content |-> <<>>, LineMatches |-> <<>>],
     [FileName |-> "b.go", Content |-> FullLines(120), LineMatches |-> <<>>],
     [FileName |-> "c.js", Content |-> FullLines(120),
      LineMatches |-> <<LineMatchAt(5), LineMatchAt(30), LineMatchAt(60), LineMatchAt(90),
                        LineMatchAt(120), LineMatchAt(200)>>],
     [FileName |-> "d.md", Content |-> <<TRUE, FALSE, TRUE>>,
      LineMatches |-> <<LineMatchAt(200), LineMatchAt(2)>>],
     [FileName |-> "e.go", Content |-> <<FALSE, FALSE>>,
      LineMatches |-> <<>>],
     [FileName |-> "f.py", Content |-> <<>>,
      LineMatches |-> <<MatchWithContext(3, 3), MatchWithContext(3, 3),
                        MatchWithContext(3, 3), MatchWithContext(0, 0)>>],
     [FileName |-> "g.js", Content |-> <<>>,
      LineMatches |-> <<MatchWithContext(30, 30), MatchWithContext(30, 30)>>]}

SnippetResults ==
    UNION {[1..n -> SnippetFiles] : n \in 0..MaxSnippetFiles}

\* 10 is what HandleAsk passes, 3 what HandleSearch passes
SnippetMaxFiles == {1, 2, 3, 7, 10, 200}

SInit ==
    /\ spc = "call"
    /\ snipFiles \in SnippetResults
    /\ snipMaxFiles \in SnippetMaxFiles
    /\ snipOut = NoSnippets
    /\ TIdle /\ FIdle /\ RIdle /\ XIdle /\ HIdle /\ IIdle /\ PIdle

\* one call of the function of lines 276-399
ExtractWithBudgets ==
    /\ spc = "call"
    /\ snipOut' = BudgetedSnippets(snipFiles, snipMaxFiles)
    /\ spc' = "budgeted"
    /\ UNCHANGED <<snipFiles, snipMaxFiles, tvars, fvars, rvars, xvars, hvars,
                   ivars, pvars>>

\* one call of the function of lines 928-960
ExtractPerMatch ==
    /\ spc = "call"
    /\ snipOut' = MatchSnippets(snipFiles, snipMaxFiles)
    /\ spc' = "per_match"
    /\ UNCHANGED <<snipFiles, snipMaxFiles, tvars, fvars, rvars, xvars, hvars,
                   ivars, pvars>>

SNext == ExtractWithBudgets \/ ExtractPerMatch

SpecSnippets == SInit /\ [][SNext]_vars

WithinSnippetBudgets ==
    /\ Len(snipOut.snippets) <= snipMaxFiles
    /\ \A k \in 1..Len(snipOut.snippets) :
          /\ snipOut.snippets[k].lines <= linesPerFileOf(snipMaxFiles)
          /\ snipOut.snippets[k].maxRead < snipOut.snippets[k].contentLen
    /\ SumOfLines(snipOut.snippets, 1) <= targetLinesTotal
    /\ ~snipOut.panicked

\* C23: for every call extractAnswerSnippets(result, maxFiles) with
\* maxFiles >= 1, at most maxFiles snippets are returned, each file
\* contributes at most max(15, 100 div maxFiles) content lines, the content
\* lines of all files together never exceed 100, and no line index at or
\* beyond the end of a file's content is read.
SnippetBudgetsKept ==
    spc \in {"budgeted", "per_match"} => WithinSnippetBudgets

(***************************************************************************)
(* NLQueryServer.HandleIndexCodebase (part_002 lines 1050-1083) and the    *)
(* run of SemanticIndexer.IndexCodebase (part_003 lines 110-180) that it   *)
(* starts with a go statement.  The walk is the sequence of entries that   *)
(* filepath.WalkDir hands to the callback; a parsed file yields a number   *)
(* of chunks.                                                              *)
(***************************************************************************)
batchSize == 50

WalkEntries ==
    {[kind |-> "skipped", chunks |-> 0],
     [kind |-> "parse_error", chunks |-> 0],
     [kind |-> "walk_error", chunks |-> 0],
     [kind |-> "parsed", chunks |-> 30],
     [kind |-> "parsed", chunks |-> 60]}

Walks == {<<>>} \cup WordSeqs(WalkEntries, MaxIndexFiles)

\* a request to HandleIndexCodebase has arrived
IndexInit ==
    /\ \E ready \in BOOLEAN, w \in Walks :
          indexing = [handler |-> "received", indexerReady |-> ready,
                      run |-> "none", walk |-> w, visited |-> 0,
                      totalFiles |-> 0, chunks |-> 0, i |-> 0,
                      batches |-> <<>>]
    /\ TIdle /\ FIdle /\ RIdle /\ XIdle /\ HIdle /\ SIdle /\ PIdle

\* lines 1051-1059: s.semanticIndexer == nil
IndexUnavailable ==
    /\ indexing.handler = "received"
    /\ ~indexing.indexerReady
    /\ indexing' = [indexing EXCEPT !.handler = "unavailable"]
    /\ UNCHANGED <<tvars, fvars, rvars, xvars, hvars, svars, pvars>>

\* lines 1069-1075: go func() { ... IndexCodebase(codebasePath) ... }()
IndexStartRun ==
    /\ indexing.handler = "received"
    /\ indexing.indexerReady
    /\ indexing' = [indexing EXCEPT !.handler = "started", !.run = "walking"]
    /\ UNCHANGED <<tvars, fvars, rvars, xvars, hvars, svars, pvars>>

\* Mutant: the handler writes its acknowledgement when the run has ended
IndexAcknowledgeAfterRun ==
    /\ indexing.handler = "started"
    /\ indexing.run \in {"done", "failed"}
    /\ indexing' = [indexing EXCEPT !.handler = "acknowledged"]
    /\ UNCHANGED <<tvars, fvars, rvars, xvars, hvars, svars, pvars>>

\* lines 1077-1082: "Indexing started in background"
IndexAcknowledge ==
    /\ indexing.handler = "started"
    /\ indexing' = [indexing EXCEPT !.handler = "acknowledged"]
    /\ UNCHANGED <<tvars, fvars, rvars, xvars, hvars, svars, pvars>>

\* part_003 lines 117-152: one call of the WalkDir callback
WalkEntry ==
    /\ indexing.run = "walking"
    /\ indexing.visited < Len(indexing.walk)
    /\ LET entry == indexing.walk[indexing.visited + 1]
       IN  indexing' =
              IF entry.kind = "walk_error"
              THEN [indexing EXCEPT !.run = "failed"]
              ELSE IF entry.kind = "skipped"
              THEN [indexing EXCEPT !.visited = @ + 1]
              ELSE IF entry.kind = "parse_error"
              THEN [indexing EXCEPT !.visited = @ + 1, !.totalFiles = @ + 1]
              ELSE [indexing EXCEPT !.visited = @ + 1, !.totalFiles = @ + 1,
                                    !.chunks = @ + entry.chunks]
    /\ UNCHANGED <<tvars, fvars, rvars, xvars, hvars, svars, pvars>>

\* part_003 lines 154-160: the walk has returned nil
WalkReturns ==
    /\ indexing.run = "walking"
    /\ indexing.visited = Len(indexing.walk)
    /\ indexing' = [indexing EXCEPT !.run = "batching", !.i = 0]
    /\ UNCHANGED <<tvars, fvars, rvars, xvars, hvars, svars, pvars>>

\* part_003 lines 163-176: one batch; indexChunks succeeds or fails
IndexBatch ==
    /\ indexing.run = "batching"
    /\ indexing.i < indexing.chunks
    /\ \E ok \in BOOLEAN :
          LET end == IF indexing.i + batchSize > indexing.chunks
                     THEN indexing.chunks ELSE indexing.i + batchSize
          IN  indexing' =
                 [indexing EXCEPT
                     !.batches = Append(@, [from |-> indexing.i, to |-> end,
                                            indexed |-> ok]),
                     !.i = @ + batchSize]
    /\ UNCHANGED <<tvars, fvars, rvars, xvars, hvars, svars, pvars>>

\* part_003 lines 178-179: return nil
IndexCodebaseReturns ==
    /\ indexing.run = "batching"
    /\ indexing.i >= indexing.chunks
    /\ indexing' = [indexing EXCEPT !.run = "done"]
    /\ UNCHANGED <<tvars, fvars, rvars, xvars, hvars, svars, pvars>>

INext ==
    \/ IndexUnavailable
    \/ IndexStartRun
    \/ IndexAcknowledge
    \/ WalkEntry
    \/ WalkReturns
    \/ IndexBatch
    \/ IndexCodebaseReturns

SpecIndexing == IndexInit /\ [][INext]_vars

RECURSIVE ChunksUpTo(_, _)
\* the chunks of the parsed files among the first n entries of the walk
ChunksUpTo(w, n) ==
    IF n = 0 THEN 0
    ELSE ChunksUpTo(w, n - 1)
            + (IF w[n].kind = "parsed" THEN w[n].chunks ELSE 0)

WalkHasNoError ==
    \A n \in 1..Len(indexing.walk) : indexing.walk[n].kind # "walk_error"

\* every chunk position belongs to a batch that was attempted
AllBatchesAttempted ==
    /\ \A c \in 0..(indexing.chunks - 1) :
          \E b \in 1..Len(indexing.batches) :
              indexing.batches[b].from <= c /\ c < indexing.batches[b].to
    /\ Len(indexing.batches) =
          (indexing.chunks + batchSize - 1) \div batchSize

ReachedRetrieval ==
    \/ pc \in {"translated", "retrieved", "searched"}
    \/ pc = "responded" /\ response.kind \in {"semantic", "parse_error", "results"}
    \/ pc = "crashed" /\ calls.semantic > 0

\* the query handed on is the one TranslateWithOpenRouter returned, and
\* Translate was not called
QueryFromLLM ==
    /\ translatorUsed = "openrouter"
    /\ calls.llm = 1
    /\ calls.basic = 0
    /\ llm.outcome = "ok"
    /\ searchQuery = llm.query

\* the query handed on is the one Translate returned
QueryFromBasic ==
    /\ translatorUsed = "basic"
    /\ calls.basic = 1
    /\ searchQuery = Translate(userQuery).query

ExactlyOneTranslator ==
    (QueryFromLLM \/ QueryFromBasic) /\ ~(QueryFromLLM /\ QueryFromBasic)

\* C2, as stated: for every request that reaches retrieval, exactly one of
\* the two translators determined the final query, never both and never
\* neither.
FallbackExclusivityAllRequests ==
    ReachedRetrieval => ExactlyOneTranslator

\* C2, amended: for every request without direct=true that reaches
\* retrieval, exactly one of the two translators determined the final query:
\* either TranslateWithOpenRouter returned it and Translate was not called,
\* or Translate returned it; never both, never neither.
FallbackExclusivity ==
    (ReachedRetrieval /\ ~directQuery) => ExactlyOneTranslator

\* a request whose query came from the LLM translator has run its keyword
\* search
FallbackExclusivityWitness ==
    /\ pc = "searched"
    /\ ~directQuery
    /\ QueryFromLLM
    /\ searchQuery # <<>>

\* TranslateWithOpenRouter has returned an error to the handler
LLMFailed == llm.outcome = "error" /\ calls.llm > 0

\* the handler's step after a failed translation: it calls Translate once,
\* does not call TranslateWithOpenRouter again, writes no response and goes
\* on to retrieval
FallbackStep ==
    /\ calls'.basic = calls.basic + 1
    /\ calls'.llm = calls.llm
    /\ calls'.completion = calls.completion
    /\ searchQuery' = Translate(userQuery).query
    /\ translatorUsed' = "basic"
    /\ response' = NoResponse
    /\ pc' = "translated"

\* C3: whenever the LLM translator fails, the request is not failed: the
\* handler's next step calls the pattern translator and goes on to retrieval
\* without writing a response; in a request the pattern translator is called
\* at most once, and after a failure the LLM translator is not called again.
FallbackOnceNoRetry ==
    /\ [](calls.basic <= 1 /\ calls.llm <= 1)
    /\ []((LLMFailed /\ pc # "llm_returned") =>
            /\ calls.basic = 1
            /\ translatorUsed = "basic"
            /\ response.kind \notin {"missing_q", "direct_answer"})
    /\ [][(LLMFailed /\ pc = "llm_returned") => FallbackStep]_vars
    /\ [][LLMFailed => calls'.llm = calls.llm]_vars

\* after a transport error or a status other than 200 the request has gone
\* on with the pattern translator's query and has been answered
FallbackOnceWitness ==
    /\ LLMFailed
    /\ pc = "responded"
    /\ response.kind = "results"
    /\ response.success
    /\ response.translatorUsed = "basic"
    /\ calls.basic = 1
    /\ calls.llm = 1


(***************************************************************************)
(* Properties of retrieval and of the response                             *)
(***************************************************************************)
\* C11: in hybrid mode, when query.Parse rejects the keyword query, the
\* keyword backend is not executed; with semantic results the response is
\* the semantic one with success=true and the note, without them it is the
\* parse-error object with status 400 and success=false.
HybridParseFailure ==
    (searchMode = "hybrid" /\ parseErr = "error") =>
        /\ calls.keyword = 0
        /\ result = NoSearch
        /\ pc = "responded"
        /\ IF Len(semanticHits) > 0
           THEN /\ response.kind = "semantic"
                /\ response.status = 200
                /\ response.success
                /\ response.note
                /\ response.mode = "hybrid"
                /\ response.semanticResults = semanticHits
                /\ response.resultCount = Len(semanticHits)
                /\ response.results = NoSearch
           ELSE /\ response.kind = "parse_error"
                /\ response.status = 400
                /\ ~response.success
                /\ response.hasError

\* a hybrid request whose keyword query did not parse was answered from the
\* semantic results
HybridParseFailureWitness ==
    /\ searchMode = "hybrid"
    /\ parseErr = "error"
    /\ Len(semanticHits) > 0
    /\ response.note
    /\ response.success


\* the request was answered by something other than the missing-q error or
\* the translator's direct answer
AnsweredAfterRetrieval ==
    /\ pc = "responded"
    /\ response.kind \notin {"missing_q", "direct_answer"}

\* C12: with mode=semantic the keyword query is neither parsed nor executed,
\* whether the semantic retrieval returned results, returned none or was
\* unavailable, and the response carries only semantic results.
SemanticModeSkipsKeyword ==
    searchMode = "semantic" =>
        /\ calls.parse = 0
        /\ calls.keyword = 0
        /\ AnsweredAfterRetrieval =>
              (response.kind = "semantic" /\ response.results = NoSearch)

\* IsIndexed was asked and said false, so Search was not called
ReportedUnindexed == calls.isIndexed = 1 /\ calls.semantic = 0

\* C13: when the vector store reports no indexed chunks, a mode=semantic
\* request is answered with success=true and resultCount=0, and neither the
\* completion service nor the keyword backend is called for it.
ZeroChunksSemantic ==
    (searchMode = "semantic" /\ ReportedUnindexed /\ pc = "responded") =>
        /\ response.success
        /\ response.resultCount = 0
        /\ calls.completion = 0
        /\ calls.answer = 0
        /\ calls.keyword = 0

\* C14: every request ends with one well-formed JSON object that carries a
\* success flag; no path, whatever the backends and the completion service
\* return, ends in a panic.
AlwaysWellFormedResponse ==
    /\ pc # "crashed"
    /\ pc = "responded" =>
          /\ response.kind # "none"
          /\ response.status \in {200, 400}
          /\ response.success => ~response.hasError


\* TranslateWithOpenRouter returned the DIRECT_ANSWER: marker
GotDirectAnswer ==
    llm.outcome = "ok" /\ HasPrefix(llm.query, LitDirectAnswer)

DirectIsVerbatim ==
    directQuery =>
        /\ calls.llm = 0
        /\ calls.basic = 0
        /\ calls.completion = 0
        /\ calls.parse > 0 => searchQuery = userQuery
        /\ (pc = "responded" /\ response.kind # "missing_q") =>
              /\ response.translatorUsed = "direct"
              /\ ~response.isNL

\* C17: every string handed to query.Parse is non-empty after trimming
\* whitespace, on the direct path, the pattern translator's path and the
\* LLM translator's path.
ParsedQueryNonEmpty ==
    calls.parse > 0 => TrimSpace(searchQuery) # <<>>


\* the response built from the keyword result (lines 822-924)
KeywordResponse(type) ==
    /\ pc = "responded"
    /\ response.kind = "results"
    /\ response.queryType = type

\* the number of line matches of the first i files of the keyword result
LineMatchesUpTo[i \in 0..4] ==
    IF i = 0 \/ i > Len(result.Files) THEN 0
    ELSE LineMatchesUpTo[i - 1] + result.Files[i].LineMatches

TotalLineMatches == LineMatchesUpTo[Len(result.Files)]

\* C18: for a count request answered from the keyword result, the reported
\* count is the number of line matches summed over all result files when
\* that sum is not zero and the number of result files otherwise; the count
\* answer is the template over that number, and AnswerFromSnippets is not
\* called.
CountAnswerTemplated ==
    KeywordResponse("count") =>
        /\ response.resultCount =
              IF TotalLineMatches > 0 THEN TotalLineMatches
              ELSE Len(result.Files)
        /\ response.countAnswer =
              IF TotalLineMatches > 0
              THEN [kind |-> "items", n |-> TotalLineMatches, text |-> <<>>]
              ELSE IF Len(result.Files) > 0
              THEN [kind |-> "files", n |-> Len(result.Files), text |-> <<>>]
              ELSE [kind |-> "zero_items", n |-> 0, text |-> <<>>]
        /\ response.yesNoAnswer = NoAnswer
        /\ response.directAnswer = <<>>
        /\ calls.snippetAnswer = 0
        /\ answerReply = NoReply
        /\ calls.completion = llm.completionCalls

\* a count request over two files, the first without line matches, was
\* answered with the two line matches of the second
CountAnswerWitness ==
    /\ KeywordResponse("count")
    /\ Len(result.Files) = 2
    /\ result.Files[1].LineMatches = 0
    /\ response.resultCount = 2
    /\ response.countAnswer.kind = "items"


\* the names of the first three files of the keyword result
FirstThreeFiles ==
    [i \in 1..(IF Len(result.Files) < 3 THEN Len(result.Files) ELSE 3) |->
        result.Files[i].FileName]

\* what a yes/no request sends to the completion service, and that the
\* retrieval results are returned whatever comes back
YesNoSnippetsAndResults ==
    /\ snippetsSent = FirstThreeFiles
    /\ Len(snippetsSent) <= 3
    /\ (Len(result.Files) > 0 /\ translatorEnabled) =>
          answerReply \in SnippetReplies
    /\ (Len(result.Files) = 0 \/ ~translatorEnabled) => answerReply = NoReply
    /\ response.results = result
    /\ response.resultCount = Len(result.Files)
    /\ response.status = 200

\* the templated yes/no answer over the number of results
TemplatedYesNo ==
    IF Len(result.Files) > 0
    THEN [kind |-> "yes_found", n |-> Len(result.Files), text |-> <<>>]
    ELSE [kind |-> "no_results", n |-> 0, text |-> <<>>]

\* C19, as stated: for a yes/no request with at least one keyword result,
\* snippets of at most 3 files are sent to the completion service and a
\* non-empty reply is the yes/no answer verbatim; otherwise the answer is
\* the template; the results are returned in every case.
YesNoAnswerVerbatim ==
    KeywordResponse("yesno") =>
        /\ YesNoSnippetsAndResults
        /\ response.yesNoAnswer =
              IF answerReply.kind = "ok" /\ answerReply.content # <<>>
              THEN [kind |-> "llm", n |-> 0, text |-> answerReply.content]
              ELSE TemplatedYesNo

\* C19, amended: the reply is used with its leading and trailing white
\* space removed, and a reply of white space only counts as empty.
YesNoAnswerTrimmed ==
    KeywordResponse("yesno") =>
        /\ YesNoSnippetsAndResults
        /\ response.yesNoAnswer =
              IF answerReply.kind = "ok" /\ TrimSpace(answerReply.content) # <<>>
              THEN [kind |-> "llm", n |-> 0,
                    text |-> TrimSpace(answerReply.content)]
              ELSE TemplatedYesNo
        /\ response.directAnswer = response.yesNoAnswer.text

\* a yes/no request with the translator disabled got the templated answer
YesNoTemplatedWhenDisabled ==
    /\ KeywordResponse("yesno")
    /\ ~translatorEnabled
    /\ response.yesNoAnswer.kind = "yes_found"

\* a yes/no request with four result files sent three snippets and used
\* the trimmed reply
YesNoAnswerWitness ==
    /\ KeywordResponse("yesno")
    /\ Len(result.Files) = 4
    /\ Len(snippetsSent) = 3
    /\ answerReply.content = AnswerPadded
    /\ response.yesNoAnswer.text = AnswerLong


\* the semantic service is absent, reports no index, or its Search gave
\* nothing (an error or no hit)
SemanticUnavailable ==
    \/ ~semanticReady
    \/ ReportedUnindexed
    \/ calls.semantic = 1 /\ semanticHits = <<>>

\* a keyword or hybrid request, answered, that lost the semantic service or
\* the LLM translator
AnsweredWithoutBackend ==
    /\ searchMode \in {"keyword", "hybrid"}
    /\ AnsweredAfterRetrieval
    /\ SemanticUnavailable \/ LLMFailed

\* the keyword results are returned, without the contribution of the
\* backend that failed
KeywordResultsReturned ==
    /\ calls.keyword = 1
    /\ response.kind = "results"
    /\ response.status = 200
    /\ response.results = result
    /\ response.success = ~result.failed
    /\ SemanticUnavailable =>
          (response.semanticResults = <<>> /\ ~response.enhanced)
    /\ LLMFailed => response.translatorUsed = "basic"

\* C20, as stated: in keyword or hybrid mode, when the semantic service is
\* absent, unindexed or failing, or the LLM translator fails, the keyword
\* query is still parsed and executed and its results are returned.
BackendLossNeverFails ==
    AnsweredWithoutBackend =>
        (calls.parse = 1 /\ KeywordResultsReturned)

\* C20, amended: in that case the keyword query is still parsed, and
\* unless query.Parse rejects it, it is executed and its results are
\* returned; when query.Parse rejects it the response is the semantic one
\* if there are semantic results and the parse-error object otherwise.
BackendLossKeepsKeyword ==
    AnsweredWithoutBackend =>
        /\ calls.parse = 1
        /\ parseErr \in {"nil", "error"}
        /\ parseErr = "nil" => KeywordResultsReturned
        /\ parseErr = "error" =>
              /\ calls.keyword = 0
              /\ response.kind =
                    IF Len(semanticHits) > 0 THEN "semantic" ELSE "parse_error"

\* a hybrid request whose translator failed and whose index is missing was
\* answered with keyword results
BackendLossWitness ==
    /\ searchMode = "hybrid"
    /\ LLMFailed
    /\ ReportedUnindexed
    /\ response.kind = "results"
    /\ response.success
    /\ Len(result.Files) > 0


\* C21: every outbound call is time-bounded, so every request to
\* HandleSearch or HandleAsk eventually leaves the handler, even when a
\* backend never replies.
EveryRequestEnds ==
    <>(pc \in {"responded", "crashed"})

\* a non-direct request with a question, past translation, on a server
\* without a completion service
TranslatedWithoutService ==
    /\ ~translatorEnabled
    /\ ~directQuery
    /\ userQuery # <<>>
    /\ pc # "received"

FusionOnlyWhenBothNonEmpty ==
    (pc = "responded" /\ response.kind = "results") =>
        IF /\ searchMode = "hybrid"
           /\ Len(semanticHits) > 0
           /\ ~result.IsNil /\ Len(result.Files) > 0
        THEN response.enhanced
        ELSE ~response.enhanced /\ response.semanticResults = semanticHits

\* HandleAsk has answered a request that had a question
AskAnswered ==
    /\ pc = "responded"
    /\ response.kind \in {"ask_unavailable", "ask_failed", "ask_answer"}

\* C29: for every request to HandleAsk with a non-empty question, the
\* response is the service-unavailable condition when the completion
\* service is not configured, and otherwise a free-text answer with the
\* query used and the file count, also when the translator produced a
\* direct answer, when the generated query fails to parse and when
\* retrieval finds no files.
AskAlwaysAnswers ==
    AskAnswered =>
        IF ~translatorEnabled
        THEN response.status = 503 /\ response.kind = "ask_unavailable"
        ELSE /\ response.status = 200
             /\ response.kind = "ask_answer"
             /\ response.directAnswer # <<>>
             /\ response.translatedQuery = searchQuery
             /\ response.resultCount = Len(result.Files)


\* the replies the backends gave to the handler call that is stepping
RepliesSeen == <<llm, semanticHits, parseErr, result, answerReply>>

\* the replies the backends gave to the other handler call
RepliesParked ==
    <<parked.llm, parked.semanticHits, parked.parseErr, parked.result,
      parked.answerReply>>

Finished(p) == p \in {"responded", "crashed"}

\* two finished calls with one request and one set of replies
SameRunTwice ==
    /\ Finished(pc) /\ Finished(parked.pc)
    /\ request = <<parked.userQuery, parked.modeParam, parked.directQuery>>
    /\ RepliesSeen = RepliesParked

====
